---- MODULE Spec2Model ----
(***************************************************************************)
(* Webhook delivery engine (src/webhook-manager.js) and the two admission  *)
(* gates of the WhatsApp service: AdvancedAntiBanManager                   *)
(* (src/unnamed/part_006) and AntiBanManager (src/unnamed/part_003).       *)
(*                                                                         *)
(* Time is Date.now() in milliseconds.  One action is one turn of the      *)
(* Node.js event loop: the synchronous code of a handler together with the *)
(* continuations that run before control returns to the loop.  A statement *)
(* passed to db.query takes effect when it is issued; its result reaches   *)
(* the code that awaits it in a later turn.                                *)
(***************************************************************************)
EXTENDS Integers, Sequences, FiniteSets, TLC

\* ------------------------------------------------------------------ bounds
MaxWebhooks   == 2     \* rows ever inserted into table webhooks
MaxCalls      == 2     \* triggerEvent invocations
MaxDeliveries == 2     \* delivery objects ever created
MaxTicks      == 7     \* clock advances in the life of one delivery
PairTicks     == 3     \* clock advances while two deliveries are under way
TickMs        == 2000  \* granularity of the modelled clock, in ms
MaxElapses    == 3     \* clock steps while a gate is exercised
MaxOverrun    == 2     \* sends recorded beyond a ceiling (per minute, burst)
MaxAlerts     == 6     \* suspicious activities recorded per client
MaxInFlight   == 2     \* queueMessage calls of a client whose timer is pending
DigestLen     == 2     \* hex characters of a modelled digest (64 in the code)
MaxPayload    == 2     \* payloads signed are 0..MaxPayload
MaxSecret     == 3     \* secret keys are 1..MaxSecret
MaxSweeps     == 2    \* clearFailedWebhooks calls of a run
MaxRegistrations == 2  \* registerWebhook calls of a run
MaxSends      == 2     \* send-message requests of a run
MaxTests      == 2     \* testWebhook calls
MaxPendingAlerts == 2  \* detectSuspiciousActivity calls of a client awaiting their INSERT
MaxLookups    == 1     \* triggerEvent / broadcastEvent calls awaiting getWebhooks

\* ------------------------------------------------------- program constants
MaxRetriesDefault == 3        \* constructor(maxRetries = 3, ...)
FailedStatusCode  == 500      \* status stored by the exhausted-retries branch
BackoffUnitMs     == 1000     \* Math.pow(2, retries) * 1000
FailureThreshold  == 10       \* clearFailedWebhooks: HAVING COUNT(*) > 10

\* AdvancedAntiBanManager
PerMinuteMax    == 20        \* perMinute: { max: 20, ... }
PerHourMax      == 100       \* perHour: { max: 100, ... }
PerDayMax       == 1000      \* perDay: { max: 1000, ... }
MinuteMs        == 60000
HourMs          == 3600000
DayMs           == 86400000
AlertThreshold  == 3         \* suspiciousActivityCount > 3
ProtectiveFloor == 5         \* Math.max(5, ...)

\* AntiBanManager
MaxMessagesPerMinute == 30
MaxMessagesPerHour   == 500
BurstLimit           == 5
BurstWindow          == 10000

\* a JavaScript undefined where a key (a one-element tuple) is expected
Undefined == << >>

Orgs == {"orgA", "orgB"}

\* validEvents of registerWebhook
ValidEvents ==
  { "message_sent", "message_received", "message_failed", "message_delivered",
    "message_read", "client_connected", "client_disconnected",
    "campaign_started", "campaign_completed", "automation_triggered",
    "contact_added", "contact_updated", "contact_removed" }

\* event lists offered to registerWebhook (the last one is rejected)
RegisterEventChoices ==
  { {"message_sent"}, {"message_sent", "message_failed"}, {"message.sent"} }

\* event lists offered to a registration request
RequestEventChoices ==
  { {"message_sent"}, {"message_sent", "message_received"}, {"message.sent"} }

\* event types passed to triggerEvent: the names of validEvents and the
\* dotted name the server passes (simple-server-v2.js line 599)
TriggerTypes == {"message_sent", "message_failed", "message.sent"}

\* the event types the server passes to triggerEvent, each with the name
\* validEvents has for it
ServerEventNames ==
  [ e \in {"message.sent", "message.received", "client.connected",
           "client.disconnected"} |->
      CASE e = "message.sent"        -> "message_sent"
        [] e = "message.received"    -> "message_received"
        [] e = "client.connected"    -> "client_connected"
        [] e = "client.disconnected" -> "client_disconnected" ]

\* what a subscriber may answer; a run draws one repertoire
Repertoires == { {200, 500}, {204, 503}, {201, 404} }

\* what db.query hands back to getWebhooks: rows with the columns its
\* SELECT lists (id, url, events, is_active, retry_count, created_at), or a
\* rejection
LookupKinds == {"selected", "error"}

VARIABLES
  webhooks,     \* table webhooks: set of rows
  nextId,       \* next id handed out by the INSERT of registerWebhook
  webhookLogs,  \* table webhook_logs: rows in insertion order
  eventQueue,   \* this.eventQueue
  deliveries,   \* the delivery objects made by _queueWebhookDelivery
  phase,        \* where each delivery stands in _processQueue
  timers,       \* per delivery: the setTimeout calls made for it
  due,          \* per delivery: when its pending timer fires (-1: none)
  posts,        \* per delivery: the answers to its axios.post calls
  lookups,      \* triggerEvent / broadcastEvent calls awaiting getWebhooks
  calls,        \* the triggerEvent / broadcastEvent calls that ended, and how
  repertoire,   \* statuses the subscribers of this run answer with
  now,          \* Date.now()
  server,       \* which server runs: "v2" (AdvancedAntiBanManager) or "v1"
  rateLimits,   \* AdvancedAntiBanManager.rateLimits: clientId -> limiter
  verdict,      \* per client: what its last canSendMessage returned
  abLimits,     \* AntiBanManager.rateLimits: clientId -> counters
  pendingSends, \* AntiBanManager.queueMessage: per client, timers not yet fired
  queueResult,  \* per client: how the check of its last queueMessage ended
  lastOp,       \* per client: the last operation of the gate on its windows
  elapses,      \* clock steps taken while a gate is exercised
  alertAt,      \* per client: when its last suspicious activity was counted (-1: never)
  alerts,       \* per client: detectSuspiciousActivity calls awaiting their INSERT
  lastIndex,    \* AntiBanManager.suspiciousPatterns[1].lastIndex (the /g pattern)
  behaviour,    \* per client: its last simulateHumanBehavior call
  signature,    \* the X-Webhook-Signature of a delivery on its way to a receiver
  verification, \* the last verifyWebhookSignature call and how it ended
  tests,        \* the testWebhook calls: what each awaits, how it ended
  storedLogs,   \* rows of webhook_logs written before this run, with created_at
  sweeps,       \* the clearFailedWebhooks calls: rows selected, rows left to update
  registrations, \* the registerWebhook calls and POST /api/webhooks requests
  sends         \* the POST /api/clients/:clientId/send-message requests

engineVars == << webhooks, nextId, webhookLogs, eventQueue, deliveries, phase,
                 timers, due, posts, lookups, calls, repertoire >>

gateVars == << server, rateLimits, verdict, abLimits, pendingSends,
               queueResult, lastOp, elapses, alertAt, alerts, lastIndex,
               behaviour >>

sigVars == << signature, verification, tests, storedLogs, sweeps >>

apiVars == << registrations, sends >>

vars == << engineVars, now, gateVars, sigVars, apiVars >>

\* the webhook manager holds no reference to the anti-ban managers
GateIdle == UNCHANGED << gateVars, sigVars, apiVars >>

\* an axios.post call: in flight, answered with a status, or rejected
Pending == [ state |-> "pending", status |-> 0 ]
HttpAnswer(status) == [ state |-> "answered", status |-> status ]
NoAnswer == [ state |-> "network", status |-> 0 ]

\* ----------------------------------------------------------------- helpers
RECURSIVE Pow2(_)
Pow2(n) == IF n = 0 THEN 1 ELSE 2 * Pow2(n - 1)

\* result.rows of a SELECT without ORDER BY: the rows in any order
Orderings(rows) ==
  { s \in [1..Cardinality(rows) -> rows] :
      \A i, j \in 1..Cardinality(rows) : i # j => s[i] # s[j] }

Last(s) == s[Len(s)]

Remove(s, i) == SubSeq(s, 1, i - 1) \o SubSeq(s, i + 1, Len(s))

\* a parameter of a statement that is undefined (sent as NULL), or a value
Null == {}
Given(v) == {v}

\* COALESCE($n, column)
Coalesce(param, column) ==
  IF param = Null THEN column ELSE CHOOSE v \in param : TRUE

\* ------------------------------------------------- webhook management
\* registerWebhook: events.filter(e => !validEvents.includes(e))
InvalidEvents(events) == { e \in events : e \notin ValidEvents }

\* url values that new URL() accepts
DefaultUrl == "https://hooks.example/a"
MovedUrl   == "https://hooks.example/b"
ValidUrls  == {DefaultUrl, MovedUrl}

\* headers JSONB DEFAULT '{}'
DefaultHeaders == "{}"

\* a row of table webhooks as the INSERT of registerWebhook stores it:
\* headers and is_active take their defaults
InsertedRow(id, organizationId, url, events, secretKey) ==
  [ id |-> id, organization_id |-> organizationId, url |-> url,
    events |-> events, headers |-> DefaultHeaders, is_active |-> TRUE,
    secret_key |-> secretKey ]

\* registerWebhook for a url that is accepted
RegisterWebhook(org, events) ==
  /\ nextId <= MaxWebhooks
  /\ IF InvalidEvents(events) # {}
       THEN UNCHANGED << webhooks, nextId >>
       ELSE /\ webhooks' = webhooks \cup
                 { InsertedRow(nextId, org, DefaultUrl, events, << nextId >>) }
            /\ nextId' = nextId + 1
  /\ UNCHANGED << webhookLogs, eventQueue, deliveries, phase, timers, due,
                  posts, lookups, calls, repertoire, now >>
  /\ GateIdle

\* the updates argument of updateWebhook: each field absent or given
Updates(url, events, headers, isActive) ==
  [ url |-> url, events |-> events, headers |-> headers, isActive |-> isActive ]

\* updateWebhook(webhookId, updates): UPDATE webhooks SET url = COALESCE($1,
\* url), events = COALESCE($2, events), headers = COALESCE($3, headers),
\* is_active = COALESCE($4, is_active) WHERE id = $5.  Neither the url nor
\* the events are validated.
UpdateWebhook(webhookId, updates) ==
  /\ webhooks' =
       { IF w.id = webhookId
           THEN [w EXCEPT !.url       = Coalesce(updates.url, @),
                          !.events    = Coalesce(updates.events, @),
                          !.headers   = Coalesce(updates.headers, @),
                          !.is_active = Coalesce(updates.isActive, @)]
           ELSE w : w \in webhooks }
  /\ UNCHANGED << nextId, webhookLogs, eventQueue, deliveries, phase, timers,
                  due, posts, lookups, calls, repertoire, now >>
  /\ GateIdle

\* deleteWebhook: DELETE FROM webhooks WHERE id = $1; webhook_logs.webhook_id
\* REFERENCES webhooks(id) ON DELETE CASCADE, so every row logged for the
\* subscription, in this run or before it, goes with it
DeleteWebhook(id) ==
  /\ \E w \in webhooks : w.id = id
  /\ webhooks' = { w \in webhooks : w.id # id }
  /\ webhookLogs' = SelectSeq(webhookLogs, LAMBDA row : row.webhook_id # id)
  /\ storedLogs' = SelectSeq(storedLogs, LAMBDA row : row.webhook_id # id)
  /\ UNCHANGED << nextId, eventQueue, deliveries, phase, timers, due, posts,
                  lookups, calls, repertoire, now >>
  /\ UNCHANGED << gateVars, signature, verification, tests, sweeps, apiVars >>

\* mutant: the lookup forgets the is_active condition
GetWebhooks_AnyState(organizationId) ==
  { w \in webhooks : w.organization_id = organizationId }

\* getWebhooks: WHERE organization_id = $1 AND is_active = true
GetWebhooks(organizationId) ==
  { w \in webhooks : w.organization_id = organizationId /\ w.is_active }

\* triggerEvent: webhooks.filter(w => w.events.includes(eventType)), over
\* the rows getWebhooks returned
ActiveWebhooks(rows, eventType) ==
  SelectSeq(rows, LAMBDA w : eventType \in w.events)

\* url strings as sequences of pieces
UrlText(url) ==
  CASE url = DefaultUrl -> << "https://", "hooks.example", "/a" >>
    [] url = MovedUrl   -> << "https://", "hooks.example", "/b" >>
    [] OTHER            -> << url >>

\* String.prototype.includes
Includes(text, part) ==
  \E i \in 1..(Len(text) - Len(part) + 1) :
    SubSeq(text, i, i + Len(part) - 1) = part

\* the filter argument of broadcastEvent: {} or { url }
UrlFilters == { Null, Given(<< "hooks.example" >>), Given(<< "/b" >>) }

\* broadcastEvent: targetWebhooks, the rows listing the event type whose url
\* includes filter.url when the filter has one
TargetWebhooks(rows, eventType, filter) ==
  SelectSeq(ActiveWebhooks(rows, eventType), LAMBDA w :
    filter = Null \/ Includes(UrlText(w.url), Coalesce(filter, << >>)))

\* a row as getWebhooks returns it: its SELECT lists id, url, events,
\* is_active, retry_count and created_at, so the row object has no
\* secret_key and webhook.secret_key is undefined
SelectedRow(w) == [w EXCEPT !.secret_key = Undefined]

\* _queueWebhookDelivery: the delivery object made of the row object it is
\* passed
NewDelivery(w, eventType, payload) ==
  [ webhookId |-> w.id, url |-> w.url, eventType |-> eventType,
    payload |-> payload, secretKey |-> w.secret_key, retries |-> 0,
    maxRetries |-> MaxRetriesDefault ]

\* ------------------------------------------------------- delivery pipeline
\* _logWebhookDelivery: one row of webhook_logs
LogRow(dv, statusCode, response, retryCount) ==
  [ webhook_id |-> dv.webhookId, event_type |-> dv.eventType,
    payload |-> dv.payload, status_code |-> statusCode,
    error_message |-> response, retry_count |-> retryCount ]

\* the rows an INSERT INTO webhook_logs stores: webhook_id must reference a
\* row of webhooks; the error of a rejected INSERT is caught and logged by
\* _logWebhookDelivery
Inserted(rows) ==
  SelectSeq(rows, LAMBDA row : \E w \in webhooks : w.id = row.webhook_id)

\* mutant: every 2xx status counts as delivered
IsFailureStatus_Non2xx(status) == status < 200 \/ status >= 300

\* _deliverWebhook: response.status !== 200 && response.status !== 204
IsFailureStatus(status) == status # 200 /\ status # 204

\* _processQueue, catch: delivery.retries < delivery.maxRetries
RetryAllowed(dv) == dv.retries < dv.maxRetries

\* mutant: linear instead of exponential backoff
BackoffDelay_Linear(retries) == 2 * retries * BackoffUnitMs

\* _processQueue, catch: Math.pow(2, delivery.retries) * 1000
BackoffDelay(retries) == Pow2(retries) * BackoffUnitMs

\* mutant: a delivery whose subscription is gone or inactive is dropped
\* instead of retried
Catch_Cancelled(dv, t, message) ==
  IF ~\E w \in webhooks : w.id = dv.webhookId /\ w.is_active
    THEN [ delivery |-> dv, phase |-> "cancelled", timer |-> << >>, due |-> -1,
           log |-> << >>, post |-> << >> ]
  ELSE IF RetryAllowed(dv)
    THEN [ delivery |-> [dv EXCEPT !.retries = @ + 1],
           phase    |-> "waiting",
           timer    |-> << [ delay  |-> BackoffDelay(dv.retries + 1),
                             waited |-> -1 ] >>,
           due      |-> t + BackoffDelay(dv.retries + 1),
           log      |-> << >>,
           post     |-> << >> ]
    ELSE [ delivery |-> dv, phase |-> "failed", timer |-> << >>, due |-> -1,
           log      |-> << LogRow(dv, FailedStatusCode, message, dv.retries) >>,
           post     |-> << >> ]

\* _processQueue, catch block, for an error thrown by _deliverWebhook at
\* time t: what becomes of the delivery, its timer and the log
Catch(dv, t, message) ==
  IF RetryAllowed(dv)
    THEN [ delivery |-> [dv EXCEPT !.retries = @ + 1],
           phase    |-> "waiting",
           timer    |-> << [ delay  |-> BackoffDelay(dv.retries + 1),
                             waited |-> -1 ] >>,
           due      |-> t + BackoffDelay(dv.retries + 1),
           log      |-> << >>,
           post     |-> << >> ]
    ELSE [ delivery |-> dv,
           phase    |-> "failed",
           timer    |-> << >>,
           due      |-> -1,
           log      |-> << LogRow(dv, FailedStatusCode, message, dv.retries) >>,
           post     |-> << >> ]

\* _generateSignature throws when the key is undefined (crypto.createHmac)
SigningThrows(dv) == dv.secretKey = Undefined

\* _processQueue up to its first suspension, for the delivery just shifted:
\* _deliverWebhook signs and starts axios.post, or throws while signing
Attempt(dv, t) ==
  IF SigningThrows(dv)
    THEN Catch(dv, t, "key argument")
    ELSE [ delivery |-> dv, phase |-> "posting", timer |-> << >>,
           due |-> -1, log |-> << >>, post |-> << Pending >> ]

\* _deliverWebhook after axios.post resolved: the row it logs for the
\* response, whatever the status
ResponseRow(dv, status) == LogRow(dv, status, "statusText", dv.retries)

\* _deliverWebhook after the INSERT of that row returned, at time t: a
\* failure status is thrown to the catch block of _processQueue
Answered(dv, t, status) ==
  IF IsFailureStatus(status)
    THEN Catch(dv, t, "Webhook returned")
    ELSE [ delivery |-> dv, phase |-> "delivered", timer |-> << >>,
           due |-> -1, log |-> << >>, post |-> << >> ]

\* _queueWebhookDelivery: this.eventQueue.push(delivery)
QueuePush(queue, dv) == Append(queue, dv)

\* mutant: _processQueue leaves the queue to a later call
ProcessQueue_Deferred(queue) == [ handled |-> << >>, queue |-> queue ]

\* mutant: _processQueue handles nothing while a retry timer is pending
ProcessQueue_Serial(queue) ==
  IF queue = << >> \/ \E d \in 1..Len(phase) : phase[d] = "waiting"
    THEN [ handled |-> << >>, queue |-> queue ]
    ELSE [ handled |-> << Head(queue) >>, queue |-> Tail(queue) ]

\* _processQueue up to its await: nothing for an empty queue, else
\* this.eventQueue.shift() and the delivery it handles
ProcessQueue(queue) ==
  IF queue = << >>
    THEN [ handled |-> << >>, queue |-> queue ]
    ELSE [ handled |-> << Head(queue) >>, queue |-> Tail(queue) ]

\* the loop of triggerEvent: each delivery is pushed and _processQueue is
\* called before the next one is made
RECURSIVE QueueAll(_, _)
QueueAll(queue, dvs) ==
  IF dvs = << >> THEN [ handled |-> << >>, queue |-> queue ]
  ELSE LET p == ProcessQueue(QueuePush(queue, Head(dvs)))
           r == QueueAll(p.queue, Tail(dvs))
       IN  [ handled |-> p.handled \o r.handled, queue |-> r.queue ]

RECURSIVE AttemptAll(_, _)
AttemptAll(dvs, t) ==
  IF dvs = << >> THEN << >>
  ELSE << Attempt(Head(dvs), t) >> \o AttemptAll(Tail(dvs), t)

RECURSIVE Field(_, _)
Field(results, f) ==
  IF results = << >> THEN << >>
  ELSE << Head(results)[f] >> \o Field(Tail(results), f)

RECURSIVE Concat(_)
Concat(ss) == IF ss = << >> THEN << >> ELSE Head(ss) \o Concat(Tail(ss))

\* mutant: the catch block of triggerEvent rethrows, as getWebhooks does
TriggerOutcome_Rethrow(lookup) ==
  IF lookup = "error" THEN "raised" ELSE "returned"

\* triggerEvent: what the caller sees; the catch block only logs
TriggerOutcome(lookup) == "returned"

\* the rows the pending calls will make deliveries for
RECURSIVE Promised(_)
Promised(ls) ==
  IF ls = << >> THEN 0
  ELSE Len(TargetWebhooks(Head(ls).rows, Head(ls).eventType, Head(ls).filter))
         + Promised(Tail(ls))

\* triggerEvent / broadcastEvent up to await this.getWebhooks(organizationId):
\* the SELECT is issued and reads the table; rows is what it will return
\* (nothing when the lookup is rejected).  The payload of the k-th call
\* is k.
Lookup(method, organizationId, eventType, filter, lookup, rows) ==
  LET l == [ method |-> method, organizationId |-> organizationId,
             eventType |-> eventType, filter |-> filter,
             payload |-> Len(calls) + Len(lookups) + 1, lookup |-> lookup,
             rows |-> IF lookup = "error" THEN << >> ELSE rows ]
  IN  /\ Len(calls) + Len(lookups) < MaxCalls
      /\ Len(lookups) < MaxLookups
      /\ Len(deliveries) + Promised(Append(lookups, l)) <= MaxDeliveries
      /\ lookups' = Append(lookups, l)

\* triggerEvent(organizationId, eventType, payload), first turn
TriggerEvent(organizationId, eventType, lookup) ==
  /\ \E rows \in Orderings(GetWebhooks(organizationId)) :
       Lookup("triggerEvent", organizationId, eventType, Null, lookup, rows)
  /\ UNCHANGED << webhooks, nextId, webhookLogs, eventQueue, deliveries, phase,
                  timers, due, posts, calls, repertoire, now >>
  /\ GateIdle

\* broadcastEvent(organizationId, eventType, payload, filter), first turn
BroadcastEvent(organizationId, eventType, filter, lookup) ==
  /\ \E rows \in Orderings(GetWebhooks(organizationId)) :
       Lookup("broadcastEvent", organizationId, eventType, filter, lookup, rows)
  /\ UNCHANGED << webhooks, nextId, webhookLogs, eventQueue, deliveries, phase,
                  timers, due, posts, calls, repertoire, now >>
  /\ GateIdle

\* the result of getWebhooks reaches the call that awaits it: the rows are
\* filtered and, in the order the SELECT returned them, each is made a
\* delivery, pushed and, in the same turn, shifted and attempted by the
\* _processQueue call that follows the push (broadcastEvent awaits
\* _queueWebhookDelivery, which resolves without leaving the turn).  A
\* rejected lookup is caught and logged.  The call record keeps the
\* delivery objects as _queueWebhookDelivery pushed them.
LookupResult(i) ==
  /\ i \in 1..Len(lookups)
  /\ LET l    == lookups[i]
         rows == TargetWebhooks(l.rows, l.eventType, l.filter)
         dvs  == [ k \in 1..Len(rows) |->
                     NewDelivery(SelectedRow(rows[k]), l.eventType, l.payload) ]
         qa   == QueueAll(eventQueue, dvs)
         res  == AttemptAll(qa.handled, now)
     IN  /\ calls' = Append(calls, [ method |-> l.method,
                                     organizationId |-> l.organizationId,
                                     eventType |-> l.eventType,
                                     payload |-> l.payload,
                                     lookup |-> l.lookup,
                                     outcome |-> TriggerOutcome(l.lookup),
                                     queued |-> dvs ])
         /\ deliveries'  = deliveries \o Field(res, "delivery")
         /\ phase'       = phase \o Field(res, "phase")
         /\ timers'      = timers \o Field(res, "timer")
         /\ due'         = due \o Field(res, "due")
         /\ posts'       = posts \o Field(res, "post")
         /\ webhookLogs' = webhookLogs \o Inserted(Concat(Field(res, "log")))
         /\ eventQueue'  = qa.queue
  /\ lookups' = Remove(lookups, i)
  /\ UNCHANGED << webhooks, nextId, repertoire, now >>
  /\ GateIdle

\* _queueWebhookDelivery(webhook, eventType, payload) called with a row
\* object that has every column of table webhooks, secret_key among them:
\* the delivery is made, pushed and, in the same turn, shifted and
\* attempted by _processQueue, which signs and starts the POST.
\* triggerEvent and broadcastEvent, the callers of the method in the
\* repository, pass it rows of getWebhooks (SelectedRow); this is the method
\* itself, called with a whole row.  The payload of the k-th call is k.
QueueWebhookDelivery(w, eventType) ==
  /\ w \in webhooks
  /\ Len(calls) + Len(lookups) < MaxCalls
  /\ Len(deliveries) + Promised(lookups) < MaxDeliveries
  /\ LET payload == Len(calls) + Len(lookups) + 1
         dv      == NewDelivery(w, eventType, payload)
         qa      == QueueAll(eventQueue, << dv >>)
         res     == AttemptAll(qa.handled, now)
     IN  /\ calls' = Append(calls, [ method |-> "_queueWebhookDelivery",
                                     organizationId |-> w.organization_id,
                                     eventType |-> eventType,
                                     payload |-> payload,
                                     lookup |-> "none",
                                     outcome |-> "returned",
                                     queued |-> << dv >> ])
         /\ deliveries'  = deliveries \o Field(res, "delivery")
         /\ phase'       = phase \o Field(res, "phase")
         /\ timers'      = timers \o Field(res, "timer")
         /\ due'         = due \o Field(res, "due")
         /\ posts'       = posts \o Field(res, "post")
         /\ webhookLogs' = webhookLogs \o Inserted(Concat(Field(res, "log")))
         /\ eventQueue'  = qa.queue
  /\ UNCHANGED << webhooks, nextId, lookups, repertoire, now >>
  /\ GateIdle

\* the continuation of _processQueue for delivery d took effect r
Apply(d, r) ==
  /\ deliveries'  = [deliveries EXCEPT ![d] = r.delivery]
  /\ phase'       = [phase EXCEPT ![d] = r.phase]
  /\ timers'      = [timers EXCEPT ![d] = @ \o r.timer]
  /\ due'         = [due EXCEPT ![d] = r.due]
  /\ webhookLogs' = webhookLogs \o Inserted(r.log)
  /\ UNCHANGED eventQueue

\* the subscriber answers the pending POST of delivery d with a status:
\* _deliverWebhook issues the INSERT of the response row and awaits it
Respond(d, status) ==
  /\ d \in 1..Len(deliveries)
  /\ phase[d] = "posting"
  /\ status \in repertoire
  /\ phase' = [phase EXCEPT ![d] = "logging"]
  /\ posts' = [posts EXCEPT ![d] = [@ EXCEPT ![Len(@)] = HttpAnswer(status)]]
  /\ webhookLogs' =
       webhookLogs \o Inserted(<< ResponseRow(deliveries[d], status) >>)
  /\ UNCHANGED << webhooks, nextId, eventQueue, deliveries, timers, due,
                  lookups, calls, repertoire, now >>
  /\ GateIdle

\* the INSERT of the response row returns (stored, or rejected and logged by
\* _logWebhookDelivery): the status is checked; a failure status goes to the
\* catch block, which sets the retry timer or issues the INSERT of the
\* exhausted-retries row
Logged(d) ==
  /\ d \in 1..Len(deliveries)
  /\ phase[d] = "logging"
  /\ Apply(d, Answered(deliveries[d], now, Last(posts[d]).status))
  /\ UNCHANGED << webhooks, nextId, posts, lookups, calls, repertoire, now >>
  /\ GateIdle

\* axios.post rejects: timeout, refused connection, DNS failure
NetworkFail(d) ==
  /\ d \in 1..Len(deliveries)
  /\ phase[d] = "posting"
  /\ Apply(d, Catch(deliveries[d], now, "network"))
  /\ posts' = [posts EXCEPT ![d] = [@ EXCEPT ![Len(@)] = NoAnswer]]
  /\ UNCHANGED << webhooks, nextId, lookups, calls, repertoire, now >>
  /\ GateIdle

\* a delivery that was pushed and is not handled
Queued(dv) ==
  [ delivery |-> dv, phase |-> "queued", timer |-> << >>, due |-> -1,
    log |-> << >>, post |-> << >> ]

\* the setTimeout callback of _processQueue: push, then _processQueue, which
\* handles the head of the queue.  The timer that fired records how long it
\* waited since it was set.
TimerFire(d) ==
  /\ d \in 1..Len(deliveries)
  /\ phase[d] = "waiting"
  /\ now >= due[d]
  /\ LET p     == ProcessQueue(QueuePush(eventQueue, deliveries[d]))
         r     == IF p.handled = << >> THEN Queued(deliveries[d])
                  ELSE Attempt(Head(p.handled), now)
         setAt == due[d] - Last(timers[d]).delay
     IN  /\ deliveries'  = [deliveries EXCEPT ![d] = r.delivery]
         /\ phase'       = [phase EXCEPT ![d] = r.phase]
         /\ timers'      = [timers EXCEPT ![d] =
                              [@ EXCEPT ![Len(@)].waited = now - setAt] \o r.timer]
         /\ due'         = [due EXCEPT ![d] = r.due]
         /\ posts'       = [posts EXCEPT ![d] = @ \o r.post]
         /\ webhookLogs' = webhookLogs \o Inserted(r.log)
         /\ eventQueue'  = p.queue
  /\ UNCHANGED << webhooks, nextId, lookups, calls, repertoire, now >>
  /\ GateIdle

\* the earliest time a pending timer is due
NextDue ==
  LET waiting == { d \in 1..Len(deliveries) : phase[d] = "waiting" }
  IN  due[CHOOSE d \in waiting : \A e \in waiting : due[d] <= due[e]]

\* nothing runs until the next setTimeout callback is due: the clock reaches
\* that time
Sleep ==
  /\ \E d \in 1..Len(deliveries) : phase[d] = "waiting"
  /\ \A d \in 1..Len(deliveries) : phase[d] = "waiting" => now < due[d]
  /\ now' = NextDue
  /\ UNCHANGED << webhooks, nextId, webhookLogs, eventQueue, deliveries, phase,
                  timers, due, posts, lookups, calls, repertoire >>
  /\ GateIdle

\* the clock advances a tick, up to a number of ticks, also while the result
\* of a statement or the answer to a POST is awaited; a timer that is due
\* fires before it advances further
Advance(ticks) ==
  /\ now + TickMs <= ticks * TickMs
  /\ \A d \in 1..Len(deliveries) : phase[d] = "waiting" => now < due[d]
  /\ now' = now + TickMs
  /\ UNCHANGED << webhooks, nextId, webhookLogs, eventQueue, deliveries, phase,
                  timers, due, posts, lookups, calls, repertoire >>
  /\ GateIdle

\* ------------------------------------ admission gate: AdvancedAntiBanManager
Clients == {"c1"}

NoLimiter == [ present |-> FALSE ]

\* initializeRateLimiter: the limiter object
NewLimiter(t) ==
  [ present   |-> TRUE,
    perMinute |-> [ max |-> PerMinuteMax, current |-> 0, window |-> t ],
    perHour   |-> [ max |-> PerHourMax,   current |-> 0, window |-> t ],
    perDay    |-> [ max |-> PerDayMax,    current |-> 0, window |-> t ],
    suspiciousActivityCount |-> 0 ]

\* mutant: the window test includes the boundary
WindowExpired_AtBoundary(w, t, duration) == t - w.window >= duration

\* canSendMessage: now - limiter.limits.perX.window > duration
WindowExpired(w, t, duration) == t - w.window > duration

\* canSendMessage: an expired window restarts at now with a count of 0
Refresh(w, t, duration) ==
  IF WindowExpired(w, t, duration)
    THEN [w EXCEPT !.current = 0, !.window = t]
    ELSE w

\* canSendMessage: the three refreshes
Refreshed(l, t) ==
  [l EXCEPT !.perMinute = Refresh(@, t, MinuteMs),
            !.perHour   = Refresh(@, t, HourMs),
            !.perDay    = Refresh(@, t, DayMs)]

\* canSendMessage: limiter.limits.perX.current >= limiter.limits.perX.max
Exceeded(w) == w.current >= w.max

\* canSendMessage: current >= max * adaptiveThreshold (0.8)
NearLimit(w) == 10 * w.current >= 8 * w.max

Allowed(warnings) ==
  [ allowed |-> TRUE, reason |-> "", retryAfter |-> 0, warnings |-> warnings ]

Blocked(reason, retryAfter) ==
  [ allowed |-> FALSE, reason |-> reason, retryAfter |-> retryAfter,
    warnings |-> {} ]

\* mutant: only the per-minute ceiling is tested
Verdict_MinuteOnly(l) ==
  IF l.perMinute.current >= l.perMinute.max
    THEN Blocked("Per-minute limit exceeded", 60)
    ELSE Allowed({})

\* canSendMessage: the value returned for a refreshed limiter
Verdict(l) ==
  IF Exceeded(l.perMinute) THEN Blocked("Per-minute limit exceeded", 60)
  ELSE IF Exceeded(l.perHour) THEN Blocked("Per-hour limit exceeded", 3600)
  ELSE IF Exceeded(l.perDay) THEN Blocked("Per-day limit exceeded", 86400)
  ELSE Allowed(
         (IF NearLimit(l.perMinute) THEN {"Approaching per-minute limit"} ELSE {})
         \cup (IF NearLimit(l.perHour) THEN {"Approaching per-hour limit"} ELSE {})
         \cup (IF NearLimit(l.perDay) THEN {"Approaching per-day limit"} ELSE {}))

\* canSendMessage without a limiter
NoLimiterVerdict ==
  [ allowed |-> TRUE, reason |-> "No limiter", retryAfter |-> 0, warnings |-> {} ]

EngineIdle == UNCHANGED << engineVars, sigVars, apiVars, behaviour >>

\* a detectSuspiciousActivity call that awaits its INSERT holds the limiter
\* object it counted on: the one in the map (Live), or one that
\* initializeRateLimiter has replaced since, with the count it was left at
Live == -1

\* initializeRateLimiter: this.rateLimits.set(clientId, limiter) puts a new
\* object in the map
InitializeRateLimiter(c) ==
  /\ server = "v2"
  /\ rateLimits' = [rateLimits EXCEPT ![c] = NewLimiter(now)]
  /\ lastOp' = [lastOp EXCEPT ![c] = "initialize"]
  /\ UNCHANGED << now, server, verdict, abLimits, pendingSends, queueResult,
                  elapses >>
  /\ alertAt' = [alertAt EXCEPT ![c] = -1]
  /\ alerts' = [alerts EXCEPT ![c] =
       [ k \in 1..Len(@) |->
           IF @[k] = Live THEN rateLimits[c].suspiciousActivityCount ELSE @[k] ]]
  /\ UNCHANGED lastIndex
  /\ EngineIdle

CanSendMessage(c) ==
  /\ server = "v2"
  /\ IF rateLimits[c].present
       THEN LET l == Refreshed(rateLimits[c], now)
            IN  /\ rateLimits' = [rateLimits EXCEPT ![c] = l]
                /\ verdict' = [verdict EXCEPT ![c] = Verdict(l)]
                /\ lastOp' = [lastOp EXCEPT ![c] =
                                IF Verdict(l).allowed THEN "allowed" ELSE "blocked"]
       ELSE /\ verdict' = [verdict EXCEPT ![c] = NoLimiterVerdict]
            /\ lastOp' = [lastOp EXCEPT ![c] = "allowed"]
            /\ UNCHANGED rateLimits
  /\ UNCHANGED << now, server, abLimits, pendingSends, queueResult, elapses >>
  /\ UNCHANGED << alertAt, alerts, lastIndex >>
  /\ EngineIdle

\* recordMessageSend; the count of sends the model follows is capped
RecordMessageSend(c) ==
  /\ server = "v2"
  /\ rateLimits[c].present =>
       rateLimits[c].perMinute.current < rateLimits[c].perMinute.max + MaxOverrun
  /\ rateLimits' = [rateLimits EXCEPT ![c] =
       IF @.present
         THEN [@ EXCEPT !.perMinute.current = @ + 1,
                        !.perHour.current   = @ + 1,
                        !.perDay.current    = @ + 1]
         ELSE @]
  /\ lastOp' = [lastOp EXCEPT ![c] = IF @ = "allowed" THEN "counted" ELSE "record"]
  /\ UNCHANGED << now, server, verdict, abLimits, pendingSends, queueResult,
                  elapses >>
  /\ UNCHANGED << alertAt, alerts, lastIndex >>
  /\ EngineIdle

\* the activity argument of detectSuspiciousActivity: the string the
\* send-message handler passes, or an object with the fields the patterns
\* read (failureRate in percent)
SendFailure == [ kind |-> "string" ]

ActivityObject(sequence, failurePct, ipChanges, geoJump, unusual) ==
  [ kind |-> "object", messagesSentInSequence |-> sequence,
    failureRate |-> failurePct, ipChangesInHour |-> ipChanges,
    geoLocationJump |-> geoJump, unusualMessageContent |-> unusual ]

Activities ==
  { SendFailure,
    ActivityObject(2, 10, 0, 0, FALSE),
    ActivityObject(2, 50, 0, 0, FALSE),
    ActivityObject(11, 0, 0, 0, FALSE) }

\* detectSuspiciousActivity: suspiciousPatterns.some(p => p); every field
\* of a string is undefined and no comparison with undefined holds
IsSuspicious(activity) ==
  /\ activity.kind = "object"
  /\ \/ activity.messagesSentInSequence > 10
     \/ activity.failureRate > 30
     \/ activity.ipChangesInHour > 3
     \/ activity.geoLocationJump > 1000
     \/ activity.unusualMessageContent

\* triggerProtectiveMeasures: Math.max(5, limiter.limits.perMinute.max / 2)
ProtectedMax(max) == IF max \div 2 > ProtectiveFloor THEN max \div 2 ELSE ProtectiveFloor

\* the limiter with the per-minute ceiling triggerProtectiveMeasures leaves
Protected(l) ==
  IF l.present THEN [l EXCEPT !.perMinute.max = ProtectedMax(@)] ELSE l

\* detectSuspiciousActivity up to its await, with whether one of its
\* patterns holds of the activity: without a limiter, or for an activity
\* that matches no pattern, nothing changes; else the alert is counted and
\* INSERT INTO ban_alerts is issued
DetectSuspiciousActivity(c, isSuspicious) ==
  /\ server = "v2"
  /\ IF rateLimits[c].present /\ isSuspicious
       THEN /\ rateLimits[c].suspiciousActivityCount < MaxAlerts
            /\ Len(alerts[c]) < MaxPendingAlerts
            /\ rateLimits' = [rateLimits EXCEPT ![c] =
                 [@ EXCEPT !.suspiciousActivityCount = @ + 1]]
            /\ alerts' = [alerts EXCEPT ![c] = Append(@, Live)]
            /\ alertAt' = [alertAt EXCEPT ![c] = now]
       ELSE UNCHANGED << rateLimits, alerts, alertAt >>
  /\ lastOp' = [lastOp EXCEPT ![c] = "detect"]
  /\ UNCHANGED << now, server, verdict, abLimits, pendingSends, queueResult,
                  elapses, lastIndex >>
  /\ EngineIdle

\* the INSERT of the i-th pending detectSuspiciousActivity call of c
\* returns.  Accepted: the count of the limiter the call holds is read now,
\* and past 3 alerts triggerProtectiveMeasures lowers the per-minute ceiling
\* of the limiter in the map (20, 10, 5, 5: the halves the code computes
\* are whole down to 5).  Rejected (ban_alerts.client_id REFERENCES
\* whatsapp_clients): the call throws and nothing is lowered.
AlertResult(c, i, accepted) ==
  /\ server = "v2"
  /\ i \in 1..Len(alerts[c])
  /\ LET n == IF alerts[c][i] = Live
                THEN rateLimits[c].suspiciousActivityCount ELSE alerts[c][i]
     IN  rateLimits' = [rateLimits EXCEPT ![c] =
           IF accepted /\ n > AlertThreshold THEN Protected(@) ELSE @]
  /\ alerts' = [alerts EXCEPT ![c] = Remove(@, i)]
  /\ lastOp' = [lastOp EXCEPT ![c] = "detect"]
  /\ UNCHANGED << now, server, verdict, abLimits, pendingSends, queueResult,
                  elapses, alertAt, lastIndex >>
  /\ EngineIdle

\* triggerProtectiveMeasures(clientId) called on its own: the ceiling is
\* lowered before the INSERT it awaits, and nothing follows that INSERT
TriggerProtectiveMeasures(c) ==
  /\ server = "v2"
  /\ rateLimits' = [rateLimits EXCEPT ![c] = Protected(@)]
  /\ lastOp' = [lastOp EXCEPT ![c] = "protect"]
  /\ UNCHANGED << now, server, verdict, abLimits, pendingSends, queueResult,
                  elapses, alertAt, alerts, lastIndex >>
  /\ EngineIdle

\* ---------------------------------------------- human behaviour simulation
\* the action argument of simulateHumanBehavior; the send-message handler
\* calls simulateHumanBehavior() and so passes undefined
BehaviourActions == {"undefined", "type", "mouse", "scroll", "message"}

\* values of Math.random(), in tenths
RandomDraws == {0, 3, 9}

\* _randomDelay(min, max) for the draw u: Math.random() * (max - min) + min
RandomDelay(min, max, u) == (u * (max - min)) \div 10 + min

\* simulateHumanBehavior: the time slept for an action (0: no branch
\* sleeps), with the draw p that picks the pause and the draw u of its length
HumanDelay(action, p, u) ==
  CASE action = "type"    -> RandomDelay(60, 100, u)
    [] action = "mouse"   -> RandomDelay(100, 300, u)
    [] action = "scroll"  -> RandomDelay(200, 500, u)
    [] action = "message" -> IF p < 1 THEN RandomDelay(5000, 15000, u)
                                      ELSE RandomDelay(2000, 5000, u)
    [] OTHER              -> 0

\* simulateHumanBehavior resolves to true
JsTrue == [ type |-> "boolean", value |-> 1 ]
JsNumber(n) == [ type |-> "number", value |-> n ]

NoBehaviour ==
  [ state |-> "idle", action |-> "undefined", calledAt |-> 0, delay |-> 0,
    slept |-> FALSE, returned |-> JsTrue, returnedAt |-> 0 ]

\* simulateHumanBehavior(clientId, action) up to its setTimeout; without a
\* sleep it resolves in the same turn
SimulateHumanBehavior(c, action, p, u) ==
  /\ server = "v2"
  /\ behaviour[c].state # "sleeping"
  /\ LET d == HumanDelay(action, p, u)
     IN  behaviour' = [behaviour EXCEPT ![c] =
           [ state |-> IF d > 0 THEN "sleeping" ELSE "returned",
             action |-> action, calledAt |-> now, delay |-> d,
             slept |-> d > 0, returned |-> JsTrue, returnedAt |-> now ]]
  /\ UNCHANGED << engineVars, sigVars, apiVars, now, server, rateLimits, verdict,
                  abLimits, pendingSends, queueResult, lastOp, elapses,
                  alertAt, alerts, lastIndex >>

\* the setTimeout of simulateHumanBehavior fires and the call resolves; the
\* handler that awaited it goes on to send
BehaviourTimerFire(c) ==
  /\ server = "v2"
  /\ behaviour[c].state = "sleeping"
  /\ now >= behaviour[c].calledAt + behaviour[c].delay
  /\ behaviour' = [behaviour EXCEPT ![c] =
       [@ EXCEPT !.state = "returned", !.returnedAt = now]]
  /\ UNCHANGED << engineVars, sigVars, apiVars, now, server, rateLimits, verdict,
                  abLimits, pendingSends, queueResult, lastOp, elapses,
                  alertAt, alerts, lastIndex >>

\* ------------------------------------------- admission gate: AntiBanManager
NoEntry == [ present |-> FALSE ]

\* shouldBlockMessage / recordMessage: the counters used for a client that
\* has none in the map
FreshEntry(t) ==
  [ present |-> TRUE, minuteCount |-> 0, hourCount |-> 0, burstCount |-> 0,
    minuteStart |-> t, hourStart |-> t, burstStart |-> t ]

EntryOf(c, t) == IF abLimits[c].present THEN abLimits[c] ELSE FreshEntry(t)

\* shouldBlockMessage: "Reset counters if time windows have passed"
ResetCounters(e, t) ==
  LET m == IF t - e.minuteStart > MinuteMs
             THEN [e EXCEPT !.minuteCount = 0, !.minuteStart = t] ELSE e
      h == IF t - m.hourStart > HourMs
             THEN [m EXCEPT !.hourCount = 0, !.hourStart = t] ELSE m
  IN  IF t - h.burstStart > BurstWindow
        THEN [h EXCEPT !.burstCount = 0, !.burstStart = t] ELSE h

\* shouldBlockMessage: "Check limits"
LimitReason(e) ==
  IF e.minuteCount >= MaxMessagesPerMinute THEN "rate_limit_minute"
  ELSE IF e.hourCount >= MaxMessagesPerHour THEN "rate_limit_hour"
  ELSE IF e.burstCount >= BurstLimit THEN "rate_limit_burst"
  ELSE "none"

\* Message texts are sequences of tokens: "S" is the word spam, "H" the
\* characters http://, "x" a letter, " " a space.
Text(message) ==
  CASE message = "clean" -> << "x", "x" >>
    [] message = "spam"  -> << "x", " ", "S" >>
    [] message = "link"  -> << "x", " ", "H", "x" >>
    [] message = "links" -> << "H", "x", " ", "H", "x", "x" >>

Messages == {"clean", "spam", "link", "links"}

TokenLen(tok) == IF tok = "H" THEN 7 ELSE IF tok = "S" THEN 4 ELSE 1

\* the index of the first character of token i (String positions from 0)
RECURSIVE Offset(_, _)
Offset(text, i) ==
  IF i = 1 THEN 0 ELSE Offset(text, i - 1) + TokenLen(text[i - 1])

CharLen(text) == Offset(text, Len(text) + 1)

\* suspiciousPatterns[0]: /spam|fake|scam|viagra|casino|lottery/i
KeywordTest(text) == \E i \in 1..Len(text) : text[i] = "S"

\* where a match of /http:\/\/[^\s]+/ that begins at token i ends
RECURSIVE MatchEnd(_, _)
MatchEnd(text, i) ==
  IF i < Len(text) /\ text[i + 1] # " "
    THEN MatchEnd(text, i + 1)
    ELSE Offset(text, i + 1)

\* suspiciousPatterns[1].test(message), /http:\/\/[^\s]+/g: a pattern with
\* the g flag searches from its lastIndex, leaves it at the end of the match
\* and sets it to 0 when nothing matches
HttpTest(text, from) ==
  LET starts == { i \in 1..(Len(text) - 1) :
                    /\ text[i] = "H"
                    /\ text[i + 1] # " "
                    /\ Offset(text, i) >= from }
  IN  IF from > CharLen(text) \/ starts = {}
        THEN [ matched |-> FALSE, lastIndex |-> 0 ]
        ELSE LET i == CHOOSE k \in starts : \A j \in starts : k <= j
             IN  [ matched |-> TRUE, lastIndex |-> MatchEnd(text, i + 1) ]

\* shouldBlockMessage: the loop over suspiciousPatterns returns at the first
\* pattern that matches; the remaining patterns (repeated characters, ALL
\* CAPS MESSAGE, emojis) match none of the texts above
Screen(message, from) ==
  IF KeywordTest(Text(message))
    THEN [ blocked |-> TRUE, lastIndex |-> from ]
    ELSE [ blocked   |-> HttpTest(Text(message), from).matched,
           lastIndex |-> HttpTest(Text(message), from).lastIndex ]

\* shouldBlockMessage: "Check for suspicious content"
SuspiciousContent(message) == Screen(message, lastIndex).blocked

\* shouldBlockMessage: the reason, "none" when the message may go
ShouldBlockMessage(c, message, t) ==
  IF SuspiciousContent(message) THEN "suspicious_content"
  ELSE LimitReason(ResetCounters(EntryOf(c, t), t))

\* recordMessage
RecordMessage(c, t) ==
  [ EntryOf(c, t) EXCEPT !.minuteCount = @ + 1, !.hourCount = @ + 1,
                         !.burstCount = @ + 1 ]

\* what a shouldBlockMessage call leaves behind: its result, the resets,
\* which stay in the map only when the client has an entry and the content
\* screen let the message pass, and the lastIndex of the /g pattern
Check(c, message) ==
  LET reason == ShouldBlockMessage(c, message, now)
  IN  /\ queueResult' = [queueResult EXCEPT ![c] = reason]
      /\ abLimits' = [abLimits EXCEPT ![c] =
           IF @.present /\ ~SuspiciousContent(message)
             THEN ResetCounters(@, now) ELSE @]
      /\ lastOp' = [lastOp EXCEPT ![c] =
           IF reason = "none" THEN "allowed" ELSE "blocked"]
      /\ lastIndex' = Screen(message, lastIndex).lastIndex

\* shouldBlockMessage(clientId, message) called on its own
ShouldBlockMessageCall(c, message) ==
  /\ server = "v1"
  /\ Check(c, message)
  /\ UNCHANGED << now, server, rateLimits, verdict, pendingSends, elapses,
                  alertAt, alerts >>
  /\ EngineIdle

\* queueMessage up to its setTimeout: the check, then the timer of the send
QueueMessage(c, message, delay) ==
  /\ server = "v1"
  /\ Len(pendingSends[c]) < MaxInFlight
  /\ Check(c, message)
  /\ pendingSends' = [pendingSends EXCEPT ![c] =
       IF ShouldBlockMessage(c, message, now) = "none"
         THEN Append(@, now + delay) ELSE @]
  /\ UNCHANGED << now, server, rateLimits, verdict, elapses, alertAt, alerts >>
  /\ EngineIdle

\* the setTimeout callback of queueMessage: recordMessage, then the send
SendTimerFire(c, i) ==
  /\ server = "v1"
  /\ i \in 1..Len(pendingSends[c])
  /\ now >= pendingSends[c][i]
  /\ abLimits' = [abLimits EXCEPT ![c] = RecordMessage(c, now)]
  /\ pendingSends' = [pendingSends EXCEPT ![c] = Remove(@, i)]
  /\ lastOp' = [lastOp EXCEPT ![c] =
       IF @ = "allowed" /\ i = Len(pendingSends[c]) THEN "counted" ELSE "record"]
  /\ UNCHANGED << now, server, rateLimits, verdict, queueResult, elapses >>
  /\ UNCHANGED << alertAt, alerts, lastIndex >>
  /\ EngineIdle

\* recordMessage(clientId) called on its own: no timer of queueMessage is
\* involved, so pendingSends stays as it is
RecordMessageCall(c) ==
  /\ server = "v1"
  /\ EntryOf(c, now).burstCount < BurstLimit + MaxOverrun
  /\ abLimits' = [abLimits EXCEPT ![c] = RecordMessage(c, now)]
  /\ lastOp' = [lastOp EXCEPT ![c] =
       IF @ = "allowed" THEN "counted" ELSE "record"]
  /\ UNCHANGED << now, server, rateLimits, verdict, pendingSends, queueResult,
                  elapses >>
  /\ UNCHANGED << alertAt, alerts, lastIndex >>
  /\ EngineIdle

\* the clock of the gates; a send timer that is due fires first
Elapse(dt) ==
  /\ server \in {"v1", "v2"}
  /\ elapses < MaxElapses
  /\ \A c \in Clients : \A i \in 1..Len(pendingSends[c]) :
       now + dt <= pendingSends[c][i]
  /\ now' = now + dt
  /\ elapses' = elapses + 1
  /\ UNCHANGED << server, rateLimits, verdict, abLimits, pendingSends,
                  queueResult, lastOp >>
  /\ UNCHANGED << alertAt, alerts, lastIndex >>
  /\ EngineIdle

\* ------------------------------------------------------ webhook signatures
\* Strings are sequences of code points.
Payloads == 0..MaxPayload
Secrets  == 1..MaxSecret


\* digest('hex'): a hex digit as a character, '0'..'9' and 'a'..'f'
HexChar(v) == IF v < 10 THEN 48 + v ELSE 87 + v

\* HMAC-SHA256 of JSON.stringify(payload) under the key is stood for by a
\* mix that tells apart all payloads and keys signed
Mix(payload, secretKey) == (4 * payload + secretKey - 1) % 16

\* _generateSignature: hmac.digest('hex'), DigestLen lowercase hex characters.
\* The digests of two different inputs differ in every character (in most of
\* the 64 characters in the code), so a digest with one character changed is
\* never the digest of another input.
GenerateSignature(payload, secretKey) ==
  [ i \in 1..DigestLen |->
      HexChar((7 * Mix(payload, secretKey) + 5 * i + 3) % 16) ]

\* Buffer.from(string): bytes of one character in UTF-8
Utf8Len(ch) == IF ch < 128 THEN 1 ELSE IF ch < 2048 THEN 2 ELSE 3

RECURSIVE ByteLength(_)
ByteLength(str) ==
  IF str = << >> THEN 0 ELSE Utf8Len(Head(str)) + ByteLength(Tail(str))

\* crypto.timingSafeEqual(Buffer.from(a), Buffer.from(b)): a RangeError when
\* the byte lengths differ, else whether the bytes are equal
TimingSafeEqual(a, b) ==
  IF ByteLength(a) # ByteLength(b) THEN "throws"
  ELSE IF a = b THEN "true" ELSE "false"

\* verifyWebhookSignature(payload, signature, secretKey)
VerifyWebhookSignature(payload, sig, secretKey) ==
  TimingSafeEqual(sig, GenerateSignature(payload, secretKey))

NoSignature == [ sent |-> FALSE, payload |-> 0, secretKey |-> 0, text |-> << >> ]

NoVerification ==
  [ done |-> FALSE, payload |-> 0, secretKey |-> 0, text |-> << >>,
    result |-> "none" ]

SigIdle == UNCHANGED << engineVars, now, gateVars, apiVars >>

\* _deliverWebhook: the X-Webhook-Signature header of a delivery
Sign(payload, secretKey) ==
  /\ signature' = [ sent |-> TRUE, payload |-> payload, secretKey |-> secretKey,
                    text |-> GenerateSignature(payload, secretKey) ]
  /\ UNCHANGED << verification, tests, storedLogs, sweeps >>
  /\ SigIdle

\* characters put in place of a character of a signature on its way: '0',
\* 'g' and U+00E9 (a byte with its high bit set, as a header carries it)
OtherChars == {48, 103, 233}

\* one character of the signature on its way is changed
Alter(i, ch) ==
  /\ signature.sent
  /\ signature.text = GenerateSignature(signature.payload, signature.secretKey)
  /\ i \in 1..Len(signature.text)
  /\ signature.text[i] # ch
  /\ signature' = [signature EXCEPT !.text[i] = ch]
  /\ UNCHANGED << verification, tests, storedLogs, sweeps >>
  /\ SigIdle

\* the signature on its way loses its last character
Truncate ==
  /\ signature.sent
  /\ signature.text = GenerateSignature(signature.payload, signature.secretKey)
  /\ signature' = [signature EXCEPT !.text = SubSeq(@, 1, Len(@) - 1)]
  /\ UNCHANGED << verification, tests, storedLogs, sweeps >>
  /\ SigIdle

\* a receiver calls verifyWebhookSignature with the signature it got
Verify(payload, secretKey) ==
  /\ signature.sent
  /\ verification' =
       [ done |-> TRUE, payload |-> payload, secretKey |-> secretKey,
         text |-> signature.text,
         result |-> VerifyWebhookSignature(payload, signature.text, secretKey) ]
  /\ UNCHANGED << signature, tests, storedLogs, sweeps >>
  /\ SigIdle

\* ------------------------------------------------------------ testWebhook
\* what the endpoint does with the test POST: a status, or no answer
TestAnswers == { HttpAnswer(200), HttpAnswer(201), HttpAnswer(204),
                 HttpAnswer(404), HttpAnswer(500), NoAnswer }

\* axios.post with the default validateStatus: status >= 200 && status < 300
AxiosResolves(answer) ==
  answer.state = "answered" /\ answer.status >= 200 /\ answer.status < 300

\* testWebhook: return { success: true }, or the error thrown again by its
\* catch block ('Webhook not found', an axios rejection)
TestOutcome(found, answer) ==
  IF found /\ AxiosResolves(answer)
    THEN [ outcome |-> "returned", fields |-> {"success"}, success |-> TRUE ]
    ELSE [ outcome |-> "raised", fields |-> {}, success |-> FALSE ]

\* testWebhook(webhookId) up to its first await: SELECT url, secret_key ...
\* WHERE id = $1 is issued (the row is found whether or not it is active)
TestWebhook(webhookId) ==
  /\ Len(tests) < MaxTests
  /\ tests' = Append(tests,
       [ webhookId |-> webhookId, state |-> "selecting",
         rows |-> { [ url |-> w.url, secret_key |-> w.secret_key ] :
                      w \in { v \in webhooks : v.id = webhookId } },
         posts |-> << >>, outcome |-> "none", fields |-> {},
         success |-> FALSE ])
  /\ UNCHANGED << engineVars, now, gateVars, signature, verification,
                  storedLogs, sweeps, apiVars >>

\* the result of the SELECT reaches testWebhook: 'Webhook not found' is
\* thrown and thrown again by the catch block, or the payload is signed with
\* the key read and posted to the url read, and the answer is awaited
TestWebhookSelected(i) ==
  /\ i \in 1..Len(tests)
  /\ tests[i].state = "selecting"
  /\ tests' = [tests EXCEPT ![i] =
       IF @.rows = {}
         THEN [@ EXCEPT !.state = "ended",
                        !.outcome = TestOutcome(FALSE, NoAnswer).outcome]
         ELSE [@ EXCEPT !.state = "posting", !.posts = << Pending >>]]
  /\ UNCHANGED << engineVars, now, gateVars, signature, verification,
                  storedLogs, sweeps, apiVars >>

\* the test POST is answered or fails: testWebhook returns or throws; the
\* queue, the timers and webhook_logs are not touched
TestWebhookAnswered(i, answer) ==
  /\ i \in 1..Len(tests)
  /\ tests[i].state = "posting"
  /\ LET r == TestOutcome(TRUE, answer)
     IN  tests' = [tests EXCEPT ![i] =
           [@ EXCEPT !.state = "ended", !.posts = << answer >>,
                     !.outcome = r.outcome, !.fields = r.fields,
                     !.success = r.success]]
  /\ UNCHANGED << engineVars, now, gateVars, signature, verification,
                  storedLogs, sweeps, apiVars >>

\* ------------------------------------------------------ clearFailedWebhooks
\* a row of webhook_logs written before this run
StoredRow(webhookId, statusCode, createdAt) ==
  [ webhook_id |-> webhookId, status_code |-> statusCode,
    created_at |-> createdAt ]

\* status_code NOT IN (200, 204)
IsFailedRow(row) == row.status_code \notin {200, 204}

\* created_at > NOW() - INTERVAL '24 hours'
IsRecent(createdAt, t) == t - createdAt < DayMs

\* the COUNT(*) of the SELECT for one webhook_id at time t; the rows written
\* during the run are all younger than 24 hours
FailureCount(webhookId, t) ==
  Len(SelectSeq(storedLogs, LAMBDA row :
        /\ row.webhook_id = webhookId
        /\ IsFailedRow(row)
        /\ IsRecent(row.created_at, t)))
  + Len(SelectSeq(webhookLogs, LAMBDA row :
        row.webhook_id = webhookId /\ IsFailedRow(row)))

\* GROUP BY webhook_id HAVING COUNT(*) > 10
SweepRows(t) ==
  { id \in { w.id : w \in webhooks } : FailureCount(id, t) > FailureThreshold }

\* the columns of table webhooks (CREATE TABLE webhooks)
WebhookColumns ==
  { "id", "organization_id", "url", "events", "headers", "is_active",
    "retry_count", "timeout_seconds", "secret_key", "created_by",
    "created_at", "updated_at" }

\* mutant: the UPDATE of the sweep names is_active alone
SweepUpdate_FlagOnly(table, id) ==
  { IF w.id = id THEN [w EXCEPT !.is_active = FALSE] ELSE w : w \in table }

\* table webhooks after UPDATE webhooks SET is_active = false, status =
\* 'disabled_due_to_failures' WHERE id = $1: the statement names a column
\* the table does not have, the database rejects it and no row changes
SweepUpdate(table, id) ==
  IF {"is_active", "status"} \subseteq WebhookColumns
    THEN { IF w.id = id THEN [w EXCEPT !.is_active = FALSE] ELSE w : w \in table }
    ELSE table

\* clearFailedWebhooks(organizationId) up to its first await: the SELECT is
\* issued.  left holds the rows of its result that the loop has not reached.
\* The statement does not read organizationId.
ClearFailedWebhooks(organizationId) ==
  /\ Len(sweeps) < MaxSweeps
  /\ sweeps' = Append(sweeps,
       [ organizationId |-> organizationId, rows |-> SweepRows(now),
         state |-> "selecting", left |-> SweepRows(now) ])
  /\ UNCHANGED << webhooks, nextId, webhookLogs, eventQueue, deliveries, phase,
                  timers, due, posts, lookups, calls, repertoire, now >>
  /\ UNCHANGED << gateVars, signature, verification, tests, storedLogs,
                  apiVars >>

\* the result of the statement that sweep i awaits arrives.  The result of
\* the SELECT: the loop issues the UPDATE of its first row (rows come in the
\* order the database gives them), or ends when there is none.  The result
\* of the UPDATE, a rejection: it is thrown into the catch block, which only
\* logs, and the sweep ends with the other rows not reached.
ClearFailedWebhooksStep(i) ==
  /\ i \in 1..Len(sweeps)
  /\ sweeps[i].state # "ended"
  /\ IF sweeps[i].state = "updating" \/ sweeps[i].left = {}
       THEN /\ sweeps' = [sweeps EXCEPT ![i].state = "ended"]
            /\ webhooks' = webhooks
       ELSE \E id \in sweeps[i].left :
              /\ sweeps' = [sweeps EXCEPT ![i].state = "updating",
                                          ![i].left = @ \ {id}]
              /\ webhooks' = SweepUpdate(webhooks, id)
  /\ UNCHANGED << nextId, webhookLogs, eventQueue, deliveries, phase, timers,
                  due, posts, lookups, calls, repertoire, now >>
  /\ UNCHANGED << gateVars, signature, verification, tests, storedLogs,
                  apiVars >>

\* -------------------------------------------------- registration requests
\* JavaScript values bound to the parameters of registerWebhook
JsString(text) == [ type |-> "string", text |-> text, items |-> {} ]
JsArray(items) == [ type |-> "array", text |-> "", items |-> items ]
JsUndefined    == [ type |-> "undefined", text |-> "", items |-> {} ]

\* url values of a request; new URL() rejects the second
Urls == {DefaultUrl, "hooks"}

\* the url of a request body that has none, or an empty one: !url holds
NoUrl == ""

\* the events of a request body that has none (undefined, !events holds):
\* no list of event names
NoEvents == {"undefined"}

\* the i-th argument after organizationId; a missing argument is undefined
Parameter(rest, i) == IF i <= Len(rest) THEN rest[i] ELSE JsUndefined

\* _validateWebhookUrl: new URL(url) converts its argument to a string; the
\* string of an array of event names, or of undefined, is no URL
UrlAccepted(value) == value.type = "string" /\ value.text \in ValidUrls

\* registerWebhook(organizationId, userId, url, events) called with the
\* arguments rest after organizationId, when the INSERT would return id:
\* the url is validated, events.filter is called (a TypeError unless events
\* is an array), invalid events are rejected, then the row is inserted
RegisterResult(rest, id) ==
  LET url    == Parameter(rest, 2)
      events == Parameter(rest, 3)
  IN  IF ~UrlAccepted(url)
        THEN [ outcome |-> "raised", error |-> "Invalid webhook URL",
               fields |-> {}, id |-> 0, secretKey |-> Undefined ]
      ELSE IF events.type # "array"
        THEN [ outcome |-> "raised", error |-> "TypeError",
               fields |-> {}, id |-> 0, secretKey |-> Undefined ]
      ELSE IF InvalidEvents(events.items) # {}
        THEN [ outcome |-> "raised", error |-> "Invalid events",
               fields |-> {}, id |-> 0, secretKey |-> Undefined ]
      ELSE [ outcome |-> "returned", error |-> "",
             fields |-> {"id", "url", "events", "secretKey", "createdAt"},
             id |-> id, secretKey |-> << id >> ]

\* how registerWebhook is called: with its four arguments, or as the handler
\* of POST /api/webhooks calls it, registerWebhook(req.org_id, url, events)
RegisterForms == {"manager", "route"}

Arguments(form, url, events) ==
  LET list == IF events = NoEvents THEN JsUndefined ELSE JsArray(events)
  IN  IF form = "manager"
        THEN << JsString("user"), JsString(url), list >>
        ELSE << JsString(url), list >>

\* what the caller holds as the secret: the secretKey field of the value
\* registerWebhook returned, or, for the handler, webhook.secret, a field
\* that value does not have
SecretSeen(form, result) ==
  IF form = "manager" THEN result.secretKey ELSE Undefined

\* the handler of POST /api/webhooks: if (!url || !events), for the url and
\* the events of the request body
GuardRefuses(form, url, events) ==
  form = "route" /\ (url = NoUrl \/ events = NoEvents)

\* a request the guard refused: registerWebhook is not called
NotCalled ==
  [ outcome |-> "none", error |-> "URL and events required", fields |-> {},
    id |-> 0, secretKey |-> Undefined ]

\* the status the handler of POST /api/webhooks answers with (0: no
\* handler): 400 from its guard, 201 when registerWebhook returned, 500 from
\* its catch block
RegisterStatus(form, url, events, result) ==
  IF form = "manager" THEN 0
  ELSE IF GuardRefuses(form, url, events) THEN 400
  ELSE IF result.outcome = "returned" THEN 201 ELSE 500

\* a registration, registerWebhook called directly or through the handler,
\* up to the first return to the event loop.  A request the guard refuses
\* is answered 400 and a call whose validation throws is rejected (the
\* handler's catch answers 500) in this turn.  Otherwise the INSERT is
\* issued, the row with the generated secret is in the table, and the call
\* awaits the result: nothing is returned yet
RegisterRequest(form, org, url, events) ==
  LET r == IF GuardRefuses(form, url, events) THEN NotCalled
           ELSE RegisterResult(Arguments(form, url, events), nextId)
  IN  /\ Len(registrations) < MaxRegistrations
      /\ nextId <= MaxWebhooks
      /\ IF r.outcome = "returned"
           THEN /\ webhooks' = webhooks \cup
                     { InsertedRow(nextId, org, url, events, r.secretKey) }
                /\ nextId' = nextId + 1
                /\ registrations' = Append(registrations,
                     [ form |-> form, organizationId |-> org, url |-> url,
                       events |-> events, outcome |-> "pending",
                       error |-> "", id |-> 0, secret |-> Undefined,
                       status |-> 0, inserted |-> nextId ])
           ELSE /\ UNCHANGED << webhooks, nextId >>
                /\ registrations' = Append(registrations,
                     [ form |-> form, organizationId |-> org, url |-> url,
                       events |-> events, outcome |-> r.outcome,
                       error |-> r.error, id |-> r.id,
                       secret |-> SecretSeen(form, r),
                       status |-> RegisterStatus(form, url, events, r),
                       inserted |-> 0 ])
      /\ UNCHANGED << webhookLogs, eventQueue, deliveries, phase, timers, due,
                      posts, lookups, calls, repertoire, now, sends >>
      /\ UNCHANGED << gateVars, sigVars >>

\* the result of the INSERT reaches the registerWebhook call that awaits
\* it: the call returns { id, url, events, secretKey, createdAt } for the
\* row it inserted, and the handler, when there is one, answers 201
RegisterReturned(i) ==
  /\ i \in 1..Len(registrations)
  /\ registrations[i].outcome = "pending"
  /\ LET c == registrations[i]
         r == RegisterResult(Arguments(c.form, c.url, c.events), c.inserted)
     IN  registrations' = [registrations EXCEPT ![i] =
           [ c EXCEPT !.outcome = r.outcome, !.id = r.id,
                      !.secret = SecretSeen(c.form, r),
                      !.status = RegisterStatus(c.form, c.url, c.events, r) ]]
  /\ UNCHANGED << engineVars, now, sends >>
  /\ UNCHANGED << gateVars, sigVars >>

\* --------------------------------------------------- send-message requests
\* what the handler holds after antiBanManager.canSendMessage(clientId):
\* the method is async and the handler does not await it, so it holds the
\* Promise that resolves to the verdict v, not v
RateLimitCheck(v) == [ kind |-> "promise", value |-> v ]

\* !rateLimitCheck.allowed: a Promise has no property allowed, and
\* !undefined is true
GateRefuses(check) == check.kind = "promise" \/ ~check.value.allowed

\* the handler of POST /api/clients/:clientId/send-message for a known
\* client and a text, lines 521-543: canSendMessage runs to its end when it
\* is called (it awaits nothing), the handler tests the Promise it got and
\* answers 429.  The statements that follow the test (simulateHumanBehavior,
\* INSERT INTO messages, the transport send, triggerEvent) are reached by a
\* request that the test lets through, and it lets none through.
SendMessage(c) ==
  LET l     == IF rateLimits[c].present THEN Refreshed(rateLimits[c], now)
               ELSE rateLimits[c]
      v     == IF rateLimits[c].present THEN Verdict(l) ELSE NoLimiterVerdict
      check == RateLimitCheck(v)
  IN  /\ server = "v2"
      /\ Len(sends) < MaxSends
      /\ GateRefuses(check)
      /\ rateLimits' = [rateLimits EXCEPT ![c] = l]
      /\ verdict' = [verdict EXCEPT ![c] = v]
      /\ lastOp' = [lastOp EXCEPT ![c] =
                      IF v.allowed THEN "allowed" ELSE "blocked"]
      /\ sends' = Append(sends,
           [ clientId  |-> c,
             allowed   |-> v.allowed,
             status    |-> 429,
             transport |-> "none",
             triggered |-> << >> ])
      /\ UNCHANGED << engineVars, now, server, abLimits, pendingSends,
                      queueResult, elapses, alertAt, alerts, lastIndex,
                      behaviour, sigVars, registrations >>

\* ---------------------------------------------------------- specifications
\* rows as registerWebhook inserts them
Row(id, org, events) == InsertedRow(id, org, DefaultUrl, events, << id >>)

\* the subscriptions present when the delivery engine of Spec starts
SeedTable ==
  { Row(1, "orgA", {"message_sent", "message_failed"}),
    Row(2, "orgA", {"message_sent"}) }

\* no admission gate is exercised
GateOff ==
  /\ server = "none"
  /\ rateLimits = [c \in Clients |-> NoLimiter]
  /\ verdict = [c \in Clients |-> NoLimiterVerdict]
  /\ abLimits = [c \in Clients |-> NoEntry]
  /\ pendingSends = [c \in Clients |-> << >>]
  /\ queueResult = [c \in Clients |-> "none"]
  /\ lastOp = [c \in Clients |-> "none"]
  /\ elapses = 0
  /\ alertAt = [c \in Clients |-> -1]
  /\ alerts = [c \in Clients |-> << >>]
  /\ lastIndex = 0
  /\ behaviour = [c \in Clients |-> NoBehaviour]
  /\ signature = NoSignature
  /\ verification = NoVerification
  /\ tests = << >>
  /\ storedLogs = << >>
  /\ sweeps = << >>
  /\ registrations = << >>
  /\ sends = << >>

InitPipeline ==
  /\ webhookLogs = << >>
  /\ eventQueue = << >>
  /\ deliveries = << >>
  /\ phase = << >>
  /\ timers = << >>
  /\ due = << >>
  /\ posts = << >>
  /\ lookups = << >>
  /\ calls = << >>
  /\ now = 0

InitEngine ==
  /\ InitPipeline
  /\ repertoire \in Repertoires

\* triggerEvent calls, by event type and by what the lookup returns: both
\* subscriptions, one subscription, and a lookup that fails
EngineInputs ==
  { << "message_sent", "selected" >>, << "message_failed", "selected" >>,
    << "message_failed", "error" >> }

\* the calls that reach one subscription at most
SingleInputs == { in \in EngineInputs : in[1] = "message_failed" }

\* the delivery pipeline with its clock, over the subscriptions of
\* SeedTable; no POST is made, so no subscriber answers
Init ==
  /\ webhooks = SeedTable
  /\ nextId = 3
  /\ InitPipeline
  /\ repertoire = {}
  /\ GateOff

\* the deliveries of the program, from the call that makes them to their
\* end, while a subscription is deleted
Next ==
  \/ \E in \in EngineInputs : TriggerEvent("orgA", in[1], in[2])
  \/ \E i \in 1..MaxLookups : LookupResult(i)
  \/ \E d \in 1..MaxDeliveries : TimerFire(d)
  \/ Advance(MaxTicks)
  \/ \E id \in 1..MaxWebhooks : DeleteWebhook(id)

Spec == Init /\ [][Next]_vars

\* the pipeline of Init with subscribers that answer, for the deliveries
\* that _queueWebhookDelivery makes of whole rows
InitPosting ==
  /\ webhooks = SeedTable
  /\ nextId = 3
  /\ InitEngine
  /\ GateOff

\* the life of one delivery, from the call that makes it to its end: a
\* delivery of triggerEvent, or one that _queueWebhookDelivery makes of a
\* whole row
NextPosting ==
  \/ \E in \in SingleInputs :
       /\ deliveries = << >>
       /\ lookups = << >>
       /\ TriggerEvent("orgA", in[1], in[2])
  \/ \E w \in webhooks :
       /\ deliveries = << >>
       /\ lookups = << >>
       /\ QueueWebhookDelivery(w, "message_failed")
  \/ \E i \in 1..MaxLookups : LookupResult(i)
  \/ \E d \in 1..MaxDeliveries, s \in UNION Repertoires : Respond(d, s)
  \/ \E d \in 1..MaxDeliveries : Logged(d)
  \/ \E d \in 1..MaxDeliveries : NetworkFail(d)
  \/ \E d \in 1..MaxDeliveries : TimerFire(d)
  \/ Advance(MaxTicks)

SpecPosting == InitPosting /\ [][NextPosting]_vars

\* two deliveries under way together, of one call or of two
NextPair ==
  \/ \E in \in EngineInputs : TriggerEvent("orgA", in[1], in[2])
  \/ \E w \in webhooks, eventType \in {"message_sent", "message_failed"} :
       QueueWebhookDelivery(w, eventType)
  \/ \E i \in 1..MaxLookups : LookupResult(i)
  \/ \E d \in 1..MaxDeliveries, s \in UNION Repertoires : Respond(d, s)
  \/ \E d \in 1..MaxDeliveries : Logged(d)
  \/ \E d \in 1..MaxDeliveries : NetworkFail(d)
  \/ \E d \in 1..MaxDeliveries : TimerFire(d)
  \/ Advance(PairTicks)

SpecPair == InitPosting /\ [][NextPair]_vars

\* registration, updates and fan-out, up to the first attempt of each
\* delivery
InitFanout ==
  /\ webhooks = {}
  /\ nextId = 1
  /\ InitPipeline
  /\ repertoire = {}
  /\ GateOff

\* updates of the active flag alone
FlagUpdates == { Updates(Null, Null, Null, Given(a)) : a \in BOOLEAN }

\* updates of the events, alone or with a deactivation
EventUpdates ==
  { Updates(Null, Given({"message_failed"}), Null, Null),
    Updates(Null, Given({"message_sent", "message_received"}), Null,
            Given(FALSE)) }

\* an update of every column
AddressUpdates ==
  { Updates(Given(MovedUrl), Given({"message.sent"}), Given("{X-Token}"),
            Given(TRUE)) }

NextFanout ==
  \/ \E org \in Orgs, events \in RegisterEventChoices : RegisterWebhook(org, events)
  \/ \E id \in 1..MaxWebhooks, u \in FlagUpdates : UpdateWebhook(id, u)
  \/ \E u \in EventUpdates : UpdateWebhook(1, u)
  \/ \E org \in Orgs, ev \in TriggerTypes, lookup \in LookupKinds :
       TriggerEvent(org, ev, lookup)
  \/ \E i \in 1..MaxLookups : LookupResult(i)

SpecFanout == InitFanout /\ [][NextFanout]_vars

\* the engine is not exercised
EngineOff ==
  /\ webhooks = {}
  /\ nextId = 1
  /\ webhookLogs = << >>
  /\ eventQueue = << >>
  /\ deliveries = << >>
  /\ phase = << >>
  /\ timers = << >>
  /\ due = << >>
  /\ posts = << >>
  /\ lookups = << >>
  /\ calls = << >>
  /\ repertoire = {}

\* a limiter of the v2 server at 86340000, a day less a minute after it was
\* initialized at 0: 998 sends in the day window, 97 of them in the hour
\* window that a check began at 82801000, none in the minute window that a
\* check began just now
BusyLimiter ==
  [ present   |-> TRUE,
    perMinute |-> [ max |-> PerMinuteMax, current |-> 0, window |-> 86340000 ],
    perHour   |-> [ max |-> PerHourMax, current |-> 97, window |-> 82801000 ],
    perDay    |-> [ max |-> PerDayMax, current |-> 998, window |-> 0 ],
    suspiciousActivityCount |-> 0 ]

\* counters of the v1 server at 3500000: the first send was recorded at
\* 1000, 498 were recorded since, 28 of them in the minute that a check
\* began at 3470000 and 3 in the burst that a check began at 3495000
BusyEntry ==
  [ present |-> TRUE, minuteCount |-> 28, hourCount |-> 498, burstCount |-> 3,
    minuteStart |-> 3470000, hourStart |-> 1000, burstStart |-> 3495000 ]

\* the admission gate of either server: both managers start with empty
\* maps; a run may also start from a client in use
InitGate ==
  /\ EngineOff
  /\ signature = NoSignature
  /\ verification = NoVerification
  /\ tests = << >>
  /\ storedLogs = << >>
  /\ sweeps = << >>
  /\ registrations = << >>
  /\ sends = << >>
  /\ verdict = [c \in Clients |-> NoLimiterVerdict]
  /\ pendingSends = [c \in Clients |-> << >>]
  /\ queueResult = [c \in Clients |-> "none"]
  /\ lastOp = [c \in Clients |-> "none"]
  /\ elapses = 0
  /\ alertAt = [c \in Clients |-> -1]
  /\ alerts = [c \in Clients |-> << >>]
  /\ lastIndex = 0
  /\ behaviour = [c \in Clients |-> NoBehaviour]
  /\ \/ /\ server = "v2"
        /\ abLimits = [c \in Clients |-> NoEntry]
        /\ \/ now = 0 /\ rateLimits = [c \in Clients |-> NoLimiter]
           \/ /\ now = 86340000
              /\ rateLimits = [c \in Clients |->
                                 IF c = "c1" THEN BusyLimiter ELSE NoLimiter]
     \/ /\ server = "v1"
        /\ rateLimits = [c \in Clients |-> NoLimiter]
        /\ \/ now = 0 /\ abLimits = [c \in Clients |-> NoEntry]
           \/ /\ now = 3500000
              /\ abLimits = [c \in Clients |->
                               IF c = "c1" THEN BusyEntry ELSE NoEntry]

GateSteps == {1000, 10000, 60000}

SendDelays == {1000, 2000}

\* Direct recordMessage calls are taken here as a caller other than
\* queueMessage makes them, right after a check that allowed the message,
\* before the clock of the run moves; SpecScreen takes them in any order.
NextGate ==
  \/ \E c \in Clients : InitializeRateLimiter(c)
  \/ \E c \in Clients : CanSendMessage(c)
  \/ \E c \in Clients : RecordMessageSend(c)
  \/ \E c \in Clients : TriggerProtectiveMeasures(c)
  \/ \E c \in Clients, m \in {"clean", "spam"} : ShouldBlockMessageCall(c, m)
  \/ \E c \in Clients, m \in {"clean", "spam"}, dl \in SendDelays :
       QueueMessage(c, m, dl)
  \/ \E c \in Clients, i \in 1..MaxInFlight : SendTimerFire(c, i)
  \/ \E c \in Clients :
       /\ lastOp[c] = "allowed"
       /\ pendingSends[c] = << >>
       /\ elapses = 0
       /\ RecordMessageCall(c)
  \/ \E dt \in GateSteps : Elapse(dt)

SpecGate == InitGate /\ [][NextGate]_vars

\* suspicious activity of a client of the v2 server, with the admission
\* checks made meanwhile
InitAlert ==
  /\ InitGate
  /\ server = "v2"

NextAlert ==
  \/ \E c \in Clients : InitializeRateLimiter(c)
  \/ \E c \in Clients : CanSendMessage(c)
  \/ \E c \in Clients, a \in Activities :
       DetectSuspiciousActivity(c, IsSuspicious(a))
  \/ \E c \in Clients, i \in 1..MaxPendingAlerts, accepted \in BOOLEAN :
       AlertResult(c, i, accepted)
  \/ \E c \in Clients : TriggerProtectiveMeasures(c)
  \/ \E dt \in GateSteps : Elapse(dt)

SpecAlert == InitAlert /\ [][NextAlert]_vars

\* signing by the sender, the signature on its way, and verification
InitSign ==
  /\ EngineOff
  /\ now = 0
  /\ GateOff

NextSign ==
  \/ \E p \in Payloads, k \in Secrets : Sign(p, k)
  \/ \E i \in 1..DigestLen, ch \in OtherChars : Alter(i, ch)
  \/ Truncate
  \/ \E p \in Payloads, k \in Secrets : Verify(p, k)

SpecSign == InitSign /\ [][NextSign]_vars

\* the content screen of the v1 server, over every message text
\* the send requests of simple-server.js, POST /client/:clientId/send: each
\* request calls queueMessage and nothing else of the manager
InitQueue == InitGate /\ server = "v1"

NextQueue ==
  \/ \E c \in Clients, m \in {"clean", "spam"}, dl \in SendDelays :
       QueueMessage(c, m, dl)
  \/ \E c \in Clients, i \in 1..MaxInFlight : SendTimerFire(c, i)
  \/ \E dt \in GateSteps : Elapse(dt)

SpecQueue == InitQueue /\ [][NextQueue]_vars

InitScreen ==
  /\ EngineOff
  /\ signature = NoSignature
  /\ verification = NoVerification
  /\ tests = << >>
  /\ storedLogs = << >>
  /\ sweeps = << >>
  /\ registrations = << >>
  /\ sends = << >>
  /\ now = 0
  /\ server = "v1"
  /\ rateLimits = [c \in Clients |-> NoLimiter]
  /\ verdict = [c \in Clients |-> NoLimiterVerdict]
  /\ abLimits = [c \in Clients |-> NoEntry]
  /\ pendingSends = [c \in Clients |-> << >>]
  /\ queueResult = [c \in Clients |-> "none"]
  /\ lastOp = [c \in Clients |-> "none"]
  /\ elapses = 0
  /\ alertAt = [c \in Clients |-> -1]
  /\ alerts = [c \in Clients |-> << >>]
  /\ lastIndex = 0
  /\ behaviour = [c \in Clients |-> NoBehaviour]

\* recordMessage is also called directly, for the first messages of a client
NextScreen ==
  \/ \E c \in Clients, m \in Messages, dl \in SendDelays : QueueMessage(c, m, dl)
  \/ \E c \in Clients, m \in Messages : ShouldBlockMessageCall(c, m)
  \/ \E c \in Clients, i \in 1..MaxInFlight : SendTimerFire(c, i)
  \/ \E c \in Clients : EntryOf(c, now).hourCount < 2 /\ RecordMessageCall(c)
  \/ \E dt \in GateSteps : Elapse(dt)

SpecScreen == InitScreen /\ [][NextScreen]_vars

\* the human-behaviour delay of the v2 server
InitDelay ==
  /\ EngineOff
  /\ signature = NoSignature
  /\ verification = NoVerification
  /\ tests = << >>
  /\ storedLogs = << >>
  /\ sweeps = << >>
  /\ registrations = << >>
  /\ sends = << >>
  /\ now = 0
  /\ server = "v2"
  /\ rateLimits = [c \in Clients |-> NoLimiter]
  /\ verdict = [c \in Clients |-> NoLimiterVerdict]
  /\ abLimits = [c \in Clients |-> NoEntry]
  /\ pendingSends = [c \in Clients |-> << >>]
  /\ queueResult = [c \in Clients |-> "none"]
  /\ lastOp = [c \in Clients |-> "none"]
  /\ elapses = 0
  /\ alertAt = [c \in Clients |-> -1]
  /\ alerts = [c \in Clients |-> << >>]
  /\ lastIndex = 0
  /\ behaviour = [c \in Clients |-> NoBehaviour]

NextDelay ==
  \/ \E c \in Clients, a \in BehaviourActions, p \in RandomDraws, u \in RandomDraws :
       SimulateHumanBehavior(c, a, p, u)
  \/ \E c \in Clients : BehaviourTimerFire(c)
  \/ \E dt \in GateSteps : Elapse(dt)

SpecDelay == InitDelay /\ [][NextDelay]_vars

\* manual tests of the subscriptions of SeedTable and of an unknown id,
\* while deliveries are under way
InitTest ==
  /\ webhooks = SeedTable
  /\ nextId = 3
  /\ InitPipeline
  /\ repertoire = {}
  /\ GateOff

NextTest ==
  \/ \E id \in 1..3 : TestWebhook(id)
  \/ \E i \in 1..MaxTests : TestWebhookSelected(i)
  \/ \E i \in 1..MaxTests, a \in TestAnswers : TestWebhookAnswered(i, a)
  \/ \E in \in EngineInputs : TriggerEvent("orgA", in[1], in[2])
  \/ \E i \in 1..MaxLookups : LookupResult(i)
  \/ \E d \in 1..MaxDeliveries : TimerFire(d)
  \/ Sleep

SpecTest == InitTest /\ [][NextTest]_vars

RECURSIVE Repeat(_, _)
Repeat(row, n) == IF n = 0 THEN << >> ELSE << row >> \o Repeat(row, n - 1)

\* when the run of SpecSweep starts
SweepStart == 2 * DayMs

\* what webhook_logs holds for a subscription when the run starts: ten or
\* eleven failures of the last hour, eleven failures exactly 24 hours old,
\* eleven deliveries, or ten failures and a delivery
Histories(id) ==
  { Repeat(StoredRow(id, 500, SweepStart - HourMs), 10),
    Repeat(StoredRow(id, 500, SweepStart - HourMs), 11),
    Repeat(StoredRow(id, 503, SweepStart - DayMs), 11),
    Repeat(StoredRow(id, 200, SweepStart - HourMs), 11),
    Repeat(StoredRow(id, 404, SweepStart - HourMs), 10)
      \o << StoredRow(id, 204, SweepStart - HourMs) >> }

\* a subscription of each organization
SweepTable ==
  { Row(1, "orgA", {"message_sent", "message_failed"}),
    Row(2, "orgB", {"message_sent"}) }

\* the sweep over the subscriptions of SweepTable, with deliveries before
\* and after it
InitSweep ==
  /\ webhooks = SweepTable
  /\ nextId = 3
  /\ webhookLogs = << >>
  /\ eventQueue = << >>
  /\ deliveries = << >>
  /\ phase = << >>
  /\ timers = << >>
  /\ due = << >>
  /\ posts = << >>
  /\ lookups = << >>
  /\ calls = << >>
  /\ repertoire = {}
  /\ now = SweepStart
  /\ server = "none"
  /\ rateLimits = [c \in Clients |-> NoLimiter]
  /\ verdict = [c \in Clients |-> NoLimiterVerdict]
  /\ abLimits = [c \in Clients |-> NoEntry]
  /\ pendingSends = [c \in Clients |-> << >>]
  /\ queueResult = [c \in Clients |-> "none"]
  /\ lastOp = [c \in Clients |-> "none"]
  /\ elapses = 0
  /\ alertAt = [c \in Clients |-> -1]
  /\ alerts = [c \in Clients |-> << >>]
  /\ lastIndex = 0
  /\ behaviour = [c \in Clients |-> NoBehaviour]
  /\ signature = NoSignature
  /\ verification = NoVerification
  /\ tests = << >>
  /\ \E h1 \in Histories(1), h2 \in Histories(2) : storedLogs = h1 \o h2
  /\ sweeps = << >>
  /\ registrations = << >>
  /\ sends = << >>

NextSweep ==
  \/ \E org \in Orgs : ClearFailedWebhooks(org)
  \/ \E i \in 1..MaxSweeps : ClearFailedWebhooksStep(i)
  \/ \E org \in Orgs, in \in EngineInputs : TriggerEvent(org, in[1], in[2])
  \/ \E i \in 1..MaxLookups : LookupResult(i)
  \/ \E id \in 1..MaxWebhooks : DeleteWebhook(id)

SpecSweep == InitSweep /\ [][NextSweep]_vars
\* registrations, direct and through the handler, with updates and tests
\* of the subscriptions they make
InitRegister ==
  /\ webhooks = {}
  /\ nextId = 1
  /\ InitPipeline
  /\ repertoire = {}
  /\ GateOff

NextRegister ==
  \/ \E form \in RegisterForms, org \in Orgs, url \in Urls,
        events \in RequestEventChoices : RegisterRequest(form, org, url, events)
  \/ \E url \in {DefaultUrl, NoUrl}, events \in {{"message_sent"}, NoEvents} :
       /\ GuardRefuses("route", url, events)
       /\ RegisterRequest("route", "orgA", url, events)
  \/ \E i \in 1..MaxRegistrations : RegisterReturned(i)
  \/ \E u \in FlagUpdates \cup AddressUpdates : UpdateWebhook(1, u)
  \/ tests = << >> /\ TestWebhook(1)
  \/ \E i \in 1..MaxTests : TestWebhookSelected(i)
  \/ \E i \in 1..MaxTests, a \in {HttpAnswer(200), NoAnswer} :
       TestWebhookAnswered(i, a)
  \/ TriggerEvent("orgA", "message.sent", "selected")
  \/ \E f \in UrlFilters : BroadcastEvent("orgA", "message.sent", f, "selected")
  \/ \E i \in 1..MaxLookups : LookupResult(i)

SpecRegister == InitRegister /\ [][NextRegister]_vars
\* a limiter half a minute after it was initialized at 0, one send short of
\* its per-minute ceiling
AlmostFull ==
  [ present   |-> TRUE,
    perMinute |-> [ max |-> PerMinuteMax, current |-> PerMinuteMax - 1,
                    window |-> 0 ],
    perHour   |-> [ max |-> PerHourMax, current |-> PerMinuteMax - 1,
                    window |-> 0 ],
    perDay    |-> [ max |-> PerDayMax, current |-> PerMinuteMax - 1,
                    window |-> 0 ],
    suspiciousActivityCount |-> 0 ]

\* send-message requests of the v2 server for a client without a limiter
\* (the server never initializes one) or with one, over the subscriptions
\* of SeedTable
InitSend ==
  /\ webhooks = SeedTable
  /\ nextId = 3
  /\ InitPipeline
  /\ repertoire = {}
  /\ server = "v2"
  /\ rateLimits \in { [c \in Clients |-> NoLimiter],
                      [c \in Clients |-> AlmostFull] }
  /\ verdict = [c \in Clients |-> NoLimiterVerdict]
  /\ abLimits = [c \in Clients |-> NoEntry]
  /\ pendingSends = [c \in Clients |-> << >>]
  /\ queueResult = [c \in Clients |-> "none"]
  /\ lastOp = [c \in Clients |-> "none"]
  /\ elapses = 0
  /\ alertAt = [c \in Clients |-> -1]
  /\ alerts = [c \in Clients |-> << >>]
  /\ lastIndex = 0
  /\ behaviour = [c \in Clients |-> NoBehaviour]
  /\ signature = NoSignature
  /\ verification = NoVerification
  /\ tests = << >>
  /\ storedLogs = << >>
  /\ sweeps = << >>
  /\ registrations = << >>
  /\ sends = << >>

\* send-message requests, and the calls of the manager's methods that set
\* a limiter up and count a send.  simple-server-v2.js calls neither
\* method, so the requests of the server are those made while no client
\* has a limiter; the others show the handler against every verdict
\* canSendMessage can reach.
NextSend ==
  \/ \E c \in Clients : SendMessage(c)
  \/ \E c \in Clients : InitializeRateLimiter(c)
  \/ \E c \in Clients : RecordMessageSend(c)
  \/ \E dt \in {MinuteMs} : Elapse(dt)

SpecSend == InitSend /\ [][NextSend]_vars
\* the triggerEvent calls of SpecLive: for subscription 1
LiveInputs == { << "message_failed", "selected" >> }

\* a delivery from its creation to its end, while its subscription is
\* deactivated, reactivated or deleted; every POST is answered or fails and
\* every timer fires
InitLive ==
  /\ webhooks = SeedTable
  /\ nextId = 3
  /\ InitEngine
  /\ GateOff

NextLive ==
  \/ \E in \in LiveInputs :
       /\ deliveries = << >>
       /\ lookups = << >>
       /\ TriggerEvent("orgA", in[1], in[2])
  \/ \E w \in webhooks :
       /\ w.id = 1
       /\ deliveries = << >>
       /\ lookups = << >>
       /\ QueueWebhookDelivery(w, "message_failed")
  \/ \E i \in 1..MaxLookups : LookupResult(i)
  \/ \E d \in 1..MaxDeliveries, s \in UNION Repertoires : Respond(d, s)
  \/ \E d \in 1..MaxDeliveries : Logged(d)
  \/ \E d \in 1..MaxDeliveries : NetworkFail(d)
  \/ \E d \in 1..MaxDeliveries : TimerFire(d)
  \/ Sleep
  \/ \E u \in FlagUpdates : UpdateWebhook(1, u)
  \/ DeleteWebhook(1)

SpecLive ==
  /\ InitLive
  /\ [][NextLive]_vars
  /\ WF_vars(\E d \in 1..MaxDeliveries :
               \/ NetworkFail(d)
               \/ \E s \in UNION Repertoires : Respond(d, s))
  /\ WF_vars(\E i \in 1..MaxLookups : LookupResult(i))
  /\ WF_vars(\E d \in 1..MaxDeliveries : Logged(d))
  /\ WF_vars(\E d \in 1..MaxDeliveries : TimerFire(d))
  /\ WF_vars(Sleep)

\* ------------------------------------------------------------------ claims
\* rows of webhook_logs that belong to delivery d (webhook and payload)
LogOf(d) ==
  SelectSeq(webhookLogs, LAMBDA row :
    row.webhook_id = deliveries[d].webhookId /\ row.payload = deliveries[d].payload)

Ended(d) == phase[d] \in {"delivered", "failed"}

Count(s, Test(_)) == Len(SelectSeq(s, Test))

IsSuccessRow(row) == row.status_code \in {200, 204}

\* the rows of d that record a terminal outcome: a success status, or a
\* failure at the final retry count
TerminalRows(d) ==
  SelectSeq(LogOf(d), LAMBDA row :
    IsSuccessRow(row) \/ row.retry_count = deliveries[d].maxRetries)

\* C1 as stated: when a delivery ends, Delivered or Failed, exactly one log
\* row records its terminal outcome (it is neither missing nor duplicated),
\* and none is written for it afterwards.
C1_OneTerminalEntry ==
  [][ \A d \in 1..Len(deliveries) :
        /\ (~Ended(d) /\ Ended(d)') => Len(TerminalRows(d)') = 1
        /\ Ended(d) => Len(TerminalRows(d)') <= Len(TerminalRows(d)) ]_vars

\* every POST of d made so far was answered with a non-200/204 status
AlwaysFailing(d) ==
  \A i \in 1..Len(posts[d]) :
    posts[d][i].state = "answered" /\ posts[d][i].status \notin {200, 204}

\* C2 as stated: against a subscriber that answers every POST with a
\* non-200/204 status, a delivery with maxRetries = 3 is retried only while
\* fewer than 3 attempts were made, so at most twice, and is Failed after
\* exactly 3 POSTs.
C2_ThreePosts ==
  \A d \in 1..Len(deliveries) :
    AlwaysFailing(d) =>
      /\ Len(timers[d]) <= deliveries[d].maxRetries - 1
      /\ phase[d] = "failed" => Len(posts[d]) = 3

\* the subscriber of d has answered the POSTs made so far as the script says
FollowsScript(d, script) ==
  /\ Len(posts[d]) <= Len(script)
  /\ \A i \in 1..Len(posts[d]) : posts[d][i] = HttpAnswer(script[i])

\* C3 as stated: a delivery to a subscriber that answers 500, 500 and then
\* 200 to its successive POSTs ends Delivered after exactly 3 POSTs, with a
\* last log row of status 200 and attempt count 3.
C3_AttemptCountThree ==
  \A d \in 1..Len(deliveries) :
    (Ended(d) /\ FollowsScript(d, << 500, 500, 200 >>)) =>
      /\ phase[d] = "delivered"
      /\ Len(posts[d]) = 3
      /\ LogOf(d) # << >>
      /\ Last(LogOf(d)).status_code = 200
      /\ Last(LogOf(d)).retry_count = 3

\* C10: the i-th timer of a delivery (set after failed attempt i-1) has a
\* delay of 2^i seconds, more than the timer before it; a timer fires no
\* earlier than its delay after it was set, and the attempt after the i-th
\* failure is made only once the i-th timer has fired.
C10_Backoff ==
  \A d \in 1..Len(deliveries) :
    /\ \A i \in 1..Len(timers[d]) :
         /\ timers[d][i].delay = Pow2(i) * 1000
         /\ i > 1 => timers[d][i].delay > timers[d][i - 1].delay
         /\ timers[d][i].waited # -1 => timers[d][i].waited >= Pow2(i) * 1000
         /\ i < Len(timers[d]) => timers[d][i].waited # -1
    /\ phase[d] = "waiting" =>
         /\ timers[d] # << >>
         /\ Last(timers[d]).waited = -1
         /\ due[d] >= 0
    /\ Len(posts[d]) <= 1 + Count(timers[d], LAMBDA tm : tm.waited # -1)
    /\ deliveries[d].retries = Len(timers[d])

\* C10 witness: a delivery whose three timers (2 s, 4 s, 8 s) have fired
C10_Witness ==
  \E d \in 1..Len(deliveries) :
    /\ Len(timers[d]) = 3
    /\ timers[d][3].waited >= 8000
    /\ Len(posts[d]) = 4

\* the subscriptions a lookup for org is to read, given the table
Listening(table, org) ==
  { w \in table : w.is_active /\ w.organization_id = org }

\* the rows of a sequence
Range(rows) == { rows[i] : i \in 1..Len(rows) }

\* the pending call that the call record k answers
LookupOf(k) ==
  lookups[CHOOSE i \in 1..Len(lookups) : lookups[i].payload = k.payload]

\* C8: the lookup of a triggerEvent call reads exactly the subscriptions
\* that are active then and belong to the organization, each once, and the
\* call changes nothing until the rows reach it; it then queues exactly one
\* delivery, with retries = 0, for each row read that lists the event type
\* and none for any other; when none matches, no delivery is created and
\* the queue, the POSTs, the timers and the log are left alone.
C8_FanOut ==
  [][ /\ Len(lookups') = Len(lookups) + 1 =>
           LET l == Last(lookups')
           IN  /\ l.lookup # "error" =>
                    /\ Range(l.rows) = Listening(webhooks, l.organizationId)
                    /\ Len(l.rows) = Cardinality(Range(l.rows))
               /\ l.lookup = "error" => l.rows = << >>
               /\ UNCHANGED << webhooks, deliveries, posts, timers, due,
                               eventQueue, webhookLogs, calls >>
      /\ Len(calls') = Len(calls) + 1 =>
           LET c        == Last(calls')
               l        == LookupOf(c)
               expected == { w \in Range(l.rows) : c.eventType \in w.events }
           IN  /\ c.method = l.method /\ c.eventType = l.eventType
               /\ c.organizationId = l.organizationId
               /\ l.method = "triggerEvent" =>
                    /\ Len(c.queued) = Cardinality(expected)
                    /\ \A w \in expected :
                         Cardinality({ i \in 1..Len(c.queued) :
                                         c.queued[i].webhookId = w.id }) = 1
                    /\ expected = {} =>
                         UNCHANGED << deliveries, posts, timers, due,
                                      eventQueue, webhookLogs >>
               /\ \A i \in 1..Len(c.queued) :
                    /\ c.queued[i].retries = 0
                    /\ c.queued[i].eventType = c.eventType
                    /\ c.queued[i].payload = c.payload
               /\ Len(deliveries') = Len(deliveries) + Len(c.queued)
               /\ \A i \in 1..Len(c.queued) :
                    deliveries'[Len(deliveries) + i].webhookId
                      = c.queued[i].webhookId ]_vars

\* C8 witness: one call reached a subscription although another row listing
\* the same event type (inactive, or of the other organization) is in the
\* table, and another call with a successful lookup reached none
C8_Witness ==
  /\ \E k \in 1..Len(calls) :
       /\ calls[k].method = "triggerEvent"
       /\ Len(calls[k].queued) = 1
       /\ \E w \in webhooks :
            /\ calls[k].eventType \in w.events
            /\ w.id # calls[k].queued[1].webhookId
            /\ ~w.is_active \/ w.organization_id # calls[k].organizationId
  /\ \E k \in 1..Len(calls) :
       calls[k].lookup # "error" /\ calls[k].queued = << >>

\* C9: triggerEvent returns normally whatever happens: the call that ends is
\* recorded as returned, also when the lookup failed; no POST of the
\* deliveries it queued has completed when it returns; and nothing that
\* happens to a delivery afterwards changes how an earlier call ended.
C9_FireAndForget ==
  [][ /\ \A k \in 1..Len(calls) : calls'[k] = calls[k]
      /\ Len(calls') = Len(calls) + 1 =>
           /\ calls'[Len(calls')].outcome = "returned"
           /\ \A i \in (Len(deliveries) + 1)..Len(deliveries') :
                /\ phase'[i] \in {"posting", "waiting"}
                /\ \A j \in 1..Len(posts'[i]) : posts'[i][j].state = "pending" ]_vars

\* C9 witness: a call whose lookup failed has returned, and so has a call
\* whose delivery exhausted its retries
C9_Witness ==
  /\ \E k \in 1..Len(calls) :
       calls[k].lookup = "error" /\ calls[k].outcome = "returned"
  /\ \E d \in 1..Len(deliveries) :
       /\ phase[d] = "failed"
       /\ \E k \in 1..Len(calls) :
            /\ calls[k].payload = deliveries[d].payload
            /\ calls[k].outcome = "returned"

\* ---- admission gate claims
WindowsOf(l) == { l.perMinute, l.perHour, l.perDay }

\* C4: right after an admission check returned allowed and that send was
\* counted, every rate window of the client holds count <= max (both managers)
C4_CountedWithinMax ==
  \A c \in Clients :
    lastOp[c] = "counted" =>
      /\ rateLimits[c].present =>
           \A w \in WindowsOf(rateLimits[c]) : w.current <= w.max
      /\ abLimits[c].present =>
           /\ abLimits[c].minuteCount <= MaxMessagesPerMinute
           /\ abLimits[c].hourCount <= MaxMessagesPerHour
           /\ abLimits[c].burstCount <= BurstLimit

\* a send counted right after the check that admitted it filled a window
C4_Witness ==
  \E c \in Clients :
    /\ lastOp[c] = "counted"
    /\ \/ /\ rateLimits[c].present
          /\ \E w \in WindowsOf(rateLimits[c]) : w.current = w.max
       \/ /\ abLimits[c].present
          /\ \/ abLimits[c].minuteCount = MaxMessagesPerMinute
             \/ abLimits[c].burstCount = BurstLimit

\* C5 as stated: however the send requests of a client interleave, the
\* messages counted inside one window never exceed the window's max
C5_AdmittedWithinMax ==
  \A c \in Clients :
    abLimits[c].present =>
      /\ abLimits[c].minuteCount <= MaxMessagesPerMinute
      /\ abLimits[c].hourCount <= MaxMessagesPerHour
      /\ abLimits[c].burstCount <= BurstLimit

\* C6 as stated: the check made when the 20 sends of the minute are used up
\* is blocked with reason rate_limit_minute
C6_ReasonRateLimitMinute ==
  \A c \in Clients :
    /\ lastOp[c] = "blocked"
    /\ rateLimits[c].present
    /\ rateLimits[c].perMinute.current >= rateLimits[c].perMinute.max
    => verdict[c].reason = "rate_limit_minute"

\* what an admission check does to one window of the given duration
CheckedWindow(before, after, duration) ==
  IF now - before.window > duration
    THEN after.current = 0 /\ after.window = now
    ELSE after = before

\* C7: an admission check resets a window exactly when now - windowStart
\* exceeds its duration; a reset sets the count to 0 and windowStart to
\* now; no step decreases a windowStart
C7_WindowReset ==
  [][ \A c \in Clients :
        /\ (CanSendMessage(c) /\ rateLimits[c].present) =>
             /\ CheckedWindow(rateLimits[c].perMinute, rateLimits'[c].perMinute, 60000)
             /\ CheckedWindow(rateLimits[c].perHour, rateLimits'[c].perHour, 3600000)
             /\ CheckedWindow(rateLimits[c].perDay, rateLimits'[c].perDay, 86400000)
        /\ (rateLimits[c].present /\ rateLimits'[c].present) =>
             /\ rateLimits'[c].perMinute.window >= rateLimits[c].perMinute.window
             /\ rateLimits'[c].perHour.window >= rateLimits[c].perHour.window
             /\ rateLimits'[c].perDay.window >= rateLimits[c].perDay.window
        /\ (abLimits[c].present /\ abLimits'[c].present) =>
             /\ abLimits'[c].minuteStart >= abLimits[c].minuteStart
             /\ abLimits'[c].hourStart >= abLimits[c].hourStart
             /\ abLimits'[c].burstStart >= abLimits[c].burstStart
    ]_vars

\* the 20 sends of a minute were used up, and the check made 61 s after the
\* minute began is allowed, in a new minute with a count of 0
C7_Witness ==
  \E c \in Clients :
    /\ lastOp[c] = "allowed"
    /\ rateLimits[c].present
    /\ rateLimits[c].perMinute = [ max |-> 20, current |-> 0, window |-> now ]
    /\ rateLimits[c].perHour.current = 20
    /\ rateLimits[c].perHour.window = now - 61000
    /\ verdict[c].allowed

\* ---- delivery outcome claims
\* a failed attempt of d is retried while retries < maxRetries and
\* otherwise ends the delivery as failed
RetriedOrFailed(d) ==
  IF deliveries[d].retries < 3
    THEN phase'[d] = "waiting" /\ deliveries'[d].retries = deliveries[d].retries + 1
    ELSE phase'[d] = "failed" /\ deliveries'[d].retries = deliveries[d].retries

\* C11: a delivery becomes delivered exactly when its POST is answered with
\* 200 or 204 (once that answer is logged); any other answer, once logged,
\* and a network failure are both retried while retries < maxRetries and
\* otherwise end the delivery as failed
C11_OutcomeByStatus ==
  [][ \A d \in 1..Len(deliveries) :
        /\ (phase[d] = "posting" /\ phase'[d] # "posting") =>
             IF Last(posts'[d]).state = "answered"
               THEN phase'[d] = "logging"
               ELSE RetriedOrFailed(d)
        /\ (phase[d] = "logging" /\ phase'[d] # "logging") =>
             IF Last(posts[d]).status \in {200, 204}
               THEN phase'[d] = "delivered"
               ELSE RetriedOrFailed(d)
        /\ (phase'[d] = "delivered" /\ phase[d] # "delivered") =>
             /\ phase[d] = "logging"
             /\ Last(posts[d]).state = "answered"
             /\ Last(posts[d]).status \in {200, 204}
    ]_vars

\* a delivery failed after a 201 answer, a 404 answer and a network failure
\* were each retried
C11_Witness ==
  \E d \in 1..Len(deliveries) :
    /\ phase[d] = "failed"
    /\ \E i, j, k \in 1..Len(posts[d]) :
         /\ posts[d][i] = HttpAnswer(201)
         /\ posts[d][j] = NoAnswer
         /\ posts[d][k] = HttpAnswer(404)

\* C12 as stated: a delivery whose signing fails is logged and terminal at
\* once, with no POST and no retry timer
C12_SigningFailureTerminal ==
  \A d \in 1..Len(deliveries) :
    SigningThrows(deliveries[d]) =>
      /\ phase[d] = "failed"
      /\ posts[d] = << >>
      /\ timers[d] = << >>
      /\ Len(LogOf(d)) = 1

\* ---- signature claims
\* C13 as stated: verification returns true for the signature made of the
\* same payload and secret, and false for any other signature presented
C13_RoundTrip ==
  verification.done =>
    verification.result =
      IF verification.text =
           GenerateSignature(verification.payload, verification.secretKey)
        THEN "true" ELSE "false"

\* ---- suspicion claims
\* C14 as stated: from the third recorded failure on, once the alerts are
\* stored, the per-minute ceiling of the client is half the configured
\* ceiling; the hour and day ceilings never change
C14_HalvedAfterThree ==
  \A c \in Clients :
    rateLimits[c].present =>
      /\ (rateLimits[c].suspiciousActivityCount >= 3 /\ alerts[c] = << >>) =>
           rateLimits[c].perMinute.max = PerMinuteMax \div 2
      /\ rateLimits[c].perHour.max = PerHourMax
      /\ rateLimits[c].perDay.max = PerDayMax

\* the cooldown after which suspicion should have decayed: the span of the
\* window whose ceiling was lowered
CooldownMs == MinuteMs

\* C15 as stated: a check made after the cooldown has elapsed since the last
\* recorded alert finds the per-minute ceiling back at the configured value
C15_CeilingRestored ==
  [][ \A c \in Clients :
        /\ CanSendMessage(c)
        /\ rateLimits[c].present
        /\ alertAt[c] >= 0
        /\ now - alertAt[c] > CooldownMs
        => rateLimits'[c].perMinute.max = PerMinuteMax
    ]_vars

\* ---- lifecycle claims
\* C16 as stated: the first admission check of a client creates its rate
\* windows, so a client that was checked has windows and its sends are
\* counted against them, whether or not a limiter was set up for it before
C16_WindowsFromFirstCheck ==
  \A c \in Clients :
    /\ (server = "v2" /\ lastOp[c] \in {"allowed", "blocked", "counted"}) =>
         /\ rateLimits[c].present
         /\ verdict[c].reason # "No limiter"
    /\ (server = "v1" /\ lastOp[c] = "counted") => abLimits[c].present

\* ---- content screen claims
\* whether a text matches a suspicious pattern, searched from its beginning
MatchesPattern(message) == Screen(message, 0).blocked

\* C17 as stated: screening a message changes no state of the gate, and a
\* message that matches a suspicious pattern is blocked on every call
C17_ScreenPure ==
  [][ \A c \in Clients, m \in Messages, dl \in SendDelays :
        (QueueMessage(c, m, dl) \/ ShouldBlockMessageCall(c, m)) =>
          /\ lastIndex' = lastIndex
          /\ MatchesPattern(m) =>
               /\ queueResult'[c] = "suspicious_content"
               /\ abLimits' = abLimits
    ]_vars

\* ---- delay claims
\* C18 as stated: every simulateHumanBehavior call made for a message gives
\* a delay of 2000..15000 ms, returns that delay and does not sleep
C18_DelayReturned ==
  \A c \in Clients :
    behaviour[c].state # "idle" =>
      /\ behaviour[c].delay >= 2000
      /\ behaviour[c].delay <= 15000
      /\ ~behaviour[c].slept
      /\ behaviour[c].returned = JsNumber(behaviour[c].delay)

\* ---- testWebhook claims
\* C19 as stated: a test makes exactly one POST, changes nothing of the
\* delivery pipeline, and returns {success, statusCode, responseTimeMs} to
\* its caller, with success = false for a failing or unreachable subscriber
C19_TestReturnsResult ==
  \A i \in 1..Len(tests) :
    tests[i].state = "ended" =>
    /\ Len(tests[i].posts) = 1
    /\ tests[i].outcome = "returned"
    /\ tests[i].fields = {"success", "statusCode", "responseTimeMs"}
    /\ tests[i].success =
         (tests[i].posts[1].state = "answered"
            /\ ~IsFailureStatus(tests[i].posts[1].status))

\* ---- sweep claims
\* C20 as stated: the sweep leaves every subscription with more than 10
\* failed log rows of the last 24 hours inactive and the active flag of the
\* others as it was, and the lookup of a triggerEvent call reads no inactive
\* subscription, so that the call queues no delivery for one
C20_SweepDeactivates ==
  /\ [](\A i \in 1..Len(sweeps) :
         sweeps[i].state = "ended" =>
           \A w \in webhooks : w.id \in sweeps[i].rows => ~w.is_active)
  /\ [][
      /\ \A org \in Orgs :
           ClearFailedWebhooks(org) =>
             Last(sweeps').rows =
               { w.id : w \in { v \in webhooks : FailureCount(v.id, now) > 10 } }
      /\ \A i \in 1..Len(sweeps) :
           ClearFailedWebhooksStep(i) =>
             \A w \in webhooks : w.id \notin sweeps[i].rows => w \in webhooks'
      /\ Len(lookups') = Len(lookups) + 1 =>
           \A w \in Range(Last(lookups').rows) :
             \E v \in webhooks : v.id = w.id /\ v.is_active
      /\ Len(calls') = Len(calls) + 1 =>
           \A i \in 1..Len(Last(calls').queued) :
             \E w \in Range(LookupOf(Last(calls')).rows) :
               w.id = Last(calls').queued[i].webhookId
    ]_vars

\* ---- registration claims
\* C21 as stated: a registration with (orgId, url, events), a valid URL and
\* valid event names returns, a subscription with the returned id is stored,
\* and the caller holds the secret stored for it
C21_RegisterReturnsSecret ==
  \A i \in 1..Len(registrations) :
    LET r == registrations[i]
    IN  ( /\ r.outcome # "pending"
          /\ r.url \in ValidUrls
          /\ InvalidEvents(r.events) = {} ) =>
          /\ r.outcome = "returned"
          /\ \E w \in webhooks : w.id = r.id /\ w.secret_key = r.secret

\* C22 as stated: a registration that names event types as the server
\* passes them to triggerEvent is accepted, and when the server triggers an
\* event type every active subscription of the organization that the
\* lookup read and that is registered for that type, under either name, is
\* queued a delivery
C22_ServerEventsMatch ==
  [][ /\ \A i \in 1..Len(registrations') :
           LET r == registrations'[i]
           IN  ( /\ r.outcome # "pending"
                 /\ i > Len(registrations) \/ registrations[i].outcome = "pending"
                 /\ r.form = "manager"
                 /\ r.url \in ValidUrls
                 /\ r.events \subseteq DOMAIN ServerEventNames )
               => r.outcome = "returned"
      /\ Len(calls') = Len(calls) + 1 =>
           LET k == Last(calls')
           IN  ( /\ k.method = "triggerEvent"
                 /\ k.eventType \in DOMAIN ServerEventNames ) =>
                 \A w \in Range(LookupOf(k).rows) :
                   ( \/ k.eventType \in w.events
                     \/ ServerEventNames[k.eventType] \in w.events )
                   => \E i \in 1..Len(k.queued) : k.queued[i].webhookId = w.id
    ]_vars

C28_RefusedIffBlocked ==
  \A i \in 1..Len(sends) :
    /\ sends[i].status = 429 <=> ~sends[i].allowed
    /\ sends[i].allowed => sends[i].transport # "none"
    /\ ~sends[i].allowed => sends[i].transport = "none"

\* ---- life of a delivery
\* the subscription of delivery d is still there and active
SubscriptionActive(d) ==
  \E w \in webhooks : w.id = deliveries[d].webhookId /\ w.is_active

\* C24: every delivery that triggerEvent created reaches delivered or
\* failed, whatever becomes of its subscription meanwhile; a delivery leaves
\* no phase but by its own attempts, and once it has ended its phase, its
\* POSTs and its timers stay as they are and no log row is added for it
C24_EndsAndStays ==
  /\ \A d \in 1..MaxDeliveries :
       [](d <= Len(deliveries) => <>(d <= Len(deliveries) /\ Ended(d)))
  /\ [][ \A d \in 1..Len(deliveries) :
           /\ d <= Len(deliveries')
           /\ phase[d] = "posting" =>
                phase'[d] \in {"posting", "logging", "waiting", "failed"}
           /\ phase[d] = "logging" =>
                phase'[d] \in {"logging", "waiting", "delivered", "failed"}
           /\ phase[d] = "waiting" =>
                phase'[d] \in {"waiting", "posting", "failed"}
           /\ Ended(d) =>
                /\ phase'[d] = phase[d]
                /\ posts'[d] = posts[d]
                /\ timers'[d] = timers[d]
                /\ due'[d] = due[d]
                /\ Len(LogOf(d)') <= Len(LogOf(d)) ]_vars

\* a retry is pending for a delivery whose subscription was deactivated or
\* deleted after the delivery was created
C24_Witness ==
  \E d \in 1..Len(deliveries) :
    /\ phase[d] = "waiting"
    /\ deliveries[d].retries >= 2
    /\ ~SubscriptionActive(d)

\* ---- independence of deliveries
\* C25: whatever the other deliveries wait for, every delivery a
\* triggerEvent call queues starts its POST as it is queued (or fails to sign
\* and waits for its own timer), and a delivery whose timer fires has waited
\* its own delay, to the tick of the clock, and goes on to its next attempt
\* at once
C25_Independent ==
  [][ /\ Len(calls') = Len(calls) + 1 =>
           /\ Len(deliveries') = Len(deliveries) + Len(Last(calls').queued)
           /\ \A e \in (Len(deliveries) + 1)..Len(deliveries') :
                IF SigningThrows(deliveries'[e])
                  THEN phase'[e] = "waiting" /\ due'[e] = now + 2 * BackoffUnitMs
                  ELSE phase'[e] = "posting" /\ posts'[e] = << Pending >>
      /\ \A e \in 1..Len(deliveries) :
           (phase[e] = "waiting" /\ timers'[e] # timers[e]) =>
             /\ now >= due[e] /\ now < due[e] + TickMs
             /\ timers'[e][Len(timers[e])].waited >= Last(timers[e]).delay
             /\ timers'[e][Len(timers[e])].waited < Last(timers[e]).delay + TickMs
             /\ IF SigningThrows(deliveries[e])
                  THEN phase'[e] \in {"waiting", "failed"}
                  ELSE phase'[e] = "posting" /\ Last(posts'[e]) = Pending
    ]_vars

HasFiredOnTime(timer) ==
  timer.waited >= timer.delay /\ timer.waited < timer.delay + TickMs

\* a delivery made by a later call has its POST under way, or has gone
\* beyond it, while an earlier delivery waits for its timer
C25_Witness ==
  \E d, e \in 1..Len(deliveries) :
    /\ deliveries[d].payload < deliveries[e].payload
    /\ phase[d] = "waiting" /\ now < due[d]
    /\ posts[e] # << >>
    /\ Len(timers[d]) >= 2
    /\ Len(timers[e]) >= 1 /\ HasFiredOnTime(timers[e][1])

\* ---- the terminal log row
\* C26 as stated: the row logged for a failed delivery stores the status the
\* subscriber answered to its last POST, or, when the subscriber answered
\* nothing to the last attempt, a value that is no HTTP status
C26_TerminalStatus ==
  \A d \in 1..Len(deliveries) :
    (phase[d] = "failed" /\ LogOf(d) # << >>) =>
      IF posts[d] # << >> /\ Last(posts[d]).state = "answered"
        THEN Last(LogOf(d)).status_code = Last(posts[d]).status
        ELSE Last(LogOf(d)).status_code \notin 100..599

\* ---- the retry hint
\* the window a blocked verdict names, with its span
BlockingWindow(l, v) ==
  CASE v.reason = "Per-minute limit exceeded" ->
         [ window |-> l.perMinute.window, span |-> MinuteMs ]
    [] v.reason = "Per-hour limit exceeded" ->
         [ window |-> l.perHour.window, span |-> HourMs ]
    [] v.reason = "Per-day limit exceeded" ->
         [ window |-> l.perDay.window, span |-> DayMs ]

\* C27 as stated: the retryAfter of a blocked check, in seconds, is the time
\* left until the window that blocks restarts: its span less the time
\* passed since its start
C27_RetryAfterRemaining ==
  [][ \A c \in Clients :
        (CanSendMessage(c) /\ ~verdict'[c].allowed) =>
          LET w == BlockingWindow(rateLimits'[c], verdict'[c])
          IN  1000 * verdict'[c].retryAfter = w.span - (now - w.window) ]_vars

\* ---- queue discipline
HasFired(timer) == timer.waited >= 0

RECURSIVE QueuedBy(_)
QueuedBy(cs) == IF cs = << >> THEN 0 ELSE Len(Head(cs).queued) + QueuedBy(Tail(cs))

\* C29: between two turns eventQueue is empty and no delivery is left
\* queued; every delivery a call pushed was handled at once, a delivery
\* pushed now would be the one the following _processQueue call handles,
\* and each delivery was handled once at its push and once per fired timer
C29_QueueDiscipline ==
  /\ eventQueue = << >>
  /\ Len(deliveries) = QueuedBy(calls)
  /\ \A d \in 1..Len(deliveries) :
       /\ phase[d] # "queued"
       /\ ProcessQueue(QueuePush(eventQueue, deliveries[d])) =
            [ handled |-> << deliveries[d] >>, queue |-> << >> ]
       /\ ~SigningThrows(deliveries[d]) =>
            Len(posts[d]) = 1 + Count(timers[d], HasFired)

\* two deliveries were pushed by one call and one of them was pushed again
\* by its retry timer
C29_Witness ==
  /\ Len(deliveries) = 2
  /\ deliveries[1].payload = deliveries[2].payload
  /\ \E d \in 1..2 : deliveries[d].retries >= 2 /\ HasFired(timers[d][1])
  /\ eventQueue = << >>

\* ---- tenant isolation of the sweep
\* C30: no step of a sweep called for an organization changes a row of
\* another organization
C30_SweepIsolated ==
  [][ \A i \in 1..Len(sweeps) :
        ClearFailedWebhooksStep(i) =>
          \A w \in webhooks :
            w.organization_id # sweeps[i].organizationId => w \in webhooks'
    ]_vars

\* a sweep called for an organization has ended; the rows it selected hold
\* a subscription of another organization, with more than 10 failures, and
\* that subscription is as it was
C30_Witness ==
  \E i \in 1..Len(sweeps) :
    /\ sweeps[i].state = "ended"
    /\ \E w \in webhooks :
         /\ w.organization_id # sweeps[i].organizationId
         /\ w.id \in sweeps[i].rows
         /\ FailureCount(w.id, now) > FailureThreshold
         /\ w \in SweepTable

====
